---- MODULE Spec2Model ----
(***************************************************************************)
(* FB BUS connector: registry, receiver/parser, publisher and top-level    *)
(* tick.  Time is counted in units of 0.5 s (the smallest delay the code   *)
(* compares against), so 0.5 s = 1, 2 s = 4, 10 s = 20, 15 s = 30.         *)
(*                                                                         *)
(* The publisher is the one of fastybird_fb_bus_connector; the registry,   *)
(* records, validator, parser and receivers are those of                   *)
(* fb_bus_connector_plugin.                                                *)
(***************************************************************************)
EXTENDS Integers, Sequences, FiniteSets, TLC

VARIABLES
    now,              \* time.time(), in half seconds
    devices,          \* DevicesRegistry.__items: device id -> DeviceRecord
    registers,        \* RegistersRegistry.__items: register -> RegisterRecord
    queue,            \* Receiver.__queue
    pairing,          \* pairing engine fields
    stopped,          \* FbBusConnector.__stopped
    packets_to_be_sent, \* FbBusConnector.__packets_to_be_sent
    budget,           \* inbound frames and host calls still allowed by the bounds
    iteration,        \* DevicesRegistry.__iterator_index and the for-loops over the
                      \* registry that are under way
    bus,              \* the packets the pairing engine handed to the transport for
                      \* a candidate, in order (observation only)
    processed_devices, \* Publisher.__processed_devices of fb_bus_connector_plugin
    sweep,            \* per device, the READ_MULTIPLE ranges the transport took in
                      \* the bank sweep under way (observation only)
    last              \* what the most recent operation did (observation only)

vars == <<now, devices, registers, queue, pairing, stopped, packets_to_be_sent,
          budget, iteration, sweep, bus, processed_devices, last>>

----------------------------------------------------------------------------
(* Bounds *)

MaxTime == 31
MaxTimeLost == 66
MaxInboundLost == 2
MaxQueue == 2
MaxInbound == 1
MaxHostCalls == 1
MaxTimeSweep == 38
MaxInboundSweep == 1
MaxLoops == 2
MaxVisits == 4
MaxRegistryChanges == 2
NewDevice == 3
MaxTimeStop == 33
MaxInboundStop == 2
MaxHostCallsStop == 2
MaxTimeBurst == 31
MaxInboundBurst == 1002
MaxTimePairing == 74
MaxInboundPairing == 5
MaxTimeCap == 1060
MaxTimePending == 54
MaxInboundPending == 6
MaxHostCallsPending == 1
MaxInboundCap == 400
MaxTimeFair == 70
MaxInboundFair == 2
MaxTimeStructure == 90
MaxInboundStructure == 8
MaxTimeWrites == 32
MaxInboundWrites == 1
MaxHostCallsWrites == 2

(* Program constants, delays in half seconds *)

StartTime == 30
MAX_TRANSMIT_ATTEMPTS == 5
PING_DELAY == 30
PACKET_RESPONSE_DELAY == 1
SAMPLING_TIME == 20
DEFAULT_MAX_PACKET_LENGTH == 80
MAX_DISCOVERY_ATTEMPTS == 5
DISCOVERY_BROADCAST_DELAY == 4
QUEUE_MAXSIZE == 1000
MAX_TOTAL_TRANSMIT_ATTEMPTS == 100
MAX_DEVICE_ATTEMPTS == 5
MAX_PAIRING_DELAY == 10
ADDRESS_NOT_ASSIGNED == 255
NEW_DEVICE_ADDRESS == 5

None == "None"

----------------------------------------------------------------------------
(* types.py *)

ProtocolVersionV1 == 1

PacketValue(name) ==
    CASE name = "PING" -> 1
      [] name = "PONG" -> 2
      [] name = "EXCEPTION" -> 3
      [] name = "DISCOVER" -> 4
      [] name = "READ_SINGLE_REGISTER" -> 33
      [] name = "READ_MULTIPLE_REGISTERS" -> 34
      [] name = "WRITE_SINGLE_REGISTER" -> 35
      [] name = "WRITE_MULTIPLE_REGISTERS" -> 36
      [] name = "REPORT_SINGLE_REGISTER" -> 37
      [] name = "READ_STATE" -> 49
      [] name = "WRITE_STATE" -> 50
      [] name = "REPORT_STATE" -> 51
      [] name = "PUB_SUB_READ_REGISTER_KEY" -> 65
      [] name = "PUB_SUB_WRITE_REGISTER_KEY" -> 66
      [] name = "PUB_SUB_BROADCAST_REGISTER_VALUE" -> 67
      [] name = "PUB_SUB_SUBSCRIBE" -> 68
      [] name = "PUB_SUB_UNSUBSCRIBE" -> 69

PacketNames ==
    {"PING", "PONG", "EXCEPTION", "DISCOVER", "READ_SINGLE_REGISTER",
     "READ_MULTIPLE_REGISTERS", "WRITE_SINGLE_REGISTER", "WRITE_MULTIPLE_REGISTERS",
     "REPORT_SINGLE_REGISTER", "READ_STATE", "WRITE_STATE", "REPORT_STATE",
     "PUB_SUB_READ_REGISTER_KEY", "PUB_SUB_WRITE_REGISTER_KEY",
     "PUB_SUB_BROADCAST_REGISTER_VALUE", "PUB_SUB_SUBSCRIBE", "PUB_SUB_UNSUBSCRIBE"}

\* Packet(int): the enum member with that value; an unknown value raises ValueError
PacketHasValue(b) == \E n \in PacketNames : PacketValue(n) = b
PacketOf(b) == CHOOSE n \in PacketNames : PacketValue(n) = b

ConnectionStateValue(name) ==
    CASE name = "UNKNOWN" -> 255
      [] name = "RUNNING" -> 1
      [] name = "STOPPED" -> 2
      [] name = "PAIRING" -> 3
      [] name = "ERROR" -> 10
      [] name = "STOPPED_BY_OPERATOR" -> 11

ConnectionStates == {"UNKNOWN", "RUNNING", "STOPPED", "PAIRING", "ERROR", "STOPPED_BY_OPERATOR"}
ConnectionStateHasValue(b) == \E n \in ConnectionStates : ConnectionStateValue(n) = b
ConnectionStateOf(b) == CHOOSE n \in ConnectionStates : ConnectionStateValue(n) = b

RegisterTypeValue(name) ==
    CASE name = "INPUT" -> 1
      [] name = "OUTPUT" -> 2
      [] name = "ATTRIBUTE" -> 3
      [] name = "SETTING" -> 4

RegisterTypes == {"INPUT", "OUTPUT", "ATTRIBUTE", "SETTING"}
RegisterTypeHasValue(b) == \E n \in RegisterTypes : RegisterTypeValue(n) = b
RegisterTypeOf(b) == CHOOSE n \in RegisterTypes : RegisterTypeValue(n) = b

\* data types the value parser accepts (v1parser.py) and the builder encodes
ParsableDataTypes ==
    {"UINT8", "UINT16", "UINT32", "INT8", "INT16", "INT32", "FLOAT32", "BOOLEAN",
     "TIME", "DATE", "DATETIME", "STRING"}
NumericDataTypes ==
    {"UINT8", "UINT16", "UINT32", "INT8", "INT16", "INT32", "FLOAT32", "BOOLEAN"}

----------------------------------------------------------------------------
(* Values: Union[str, int, ..., None] *)

NoneValue == [k |-> "none", v |-> 0]
IntValue(n) == [k |-> "int", v |-> n]
StrValue == [k |-> "str", v |-> 0]       \* the text "hello"

----------------------------------------------------------------------------
(* The devices and registers loaded from the persistent store on startup *)

Devices == {1, 2}

\* DeviceRecord.address: the bus address of device d
DeviceAddress(d) == d

UnknownAddress == 9

Register(d, t, a) == [device |-> d, type |-> t, address |-> a]

RegisterIds ==
    { Register(1, "INPUT", 0), Register(1, "INPUT", 1), Register(1, "INPUT", 2),
      Register(1, "OUTPUT", 0), Register(1, "OUTPUT", 1),
      Register(1, "ATTRIBUTE", 0), Register(1, "ATTRIBUTE", 1),
      Register(2, "INPUT", 0), Register(2, "ATTRIBUTE", 0) }

DataTypeOf(r) ==
    CASE r.type = "ATTRIBUTE" -> "UINT8"
      [] r = Register(1, "OUTPUT", 1) -> "STRING"
      [] r = Register(1, "INPUT", 2) -> "BUTTON"
      [] OTHER -> "UINT32"

NameOf(r) ==
    CASE r.type = "ATTRIBUTE" /\ r.address = 0 -> "address"
      [] r.type = "ATTRIBUTE" /\ r.address = 1 -> "state"
      [] r.type = "ATTRIBUTE" /\ r.address = 2 -> "max_packet_length"
      [] OTHER -> None

MaxRegisterAddress == 2

----------------------------------------------------------------------------
(* registry/records.py: DeviceRecord *)

NewDeviceRecord(is_enabled, is_ready) ==
    [ enabled |-> is_enabled,
      ready |-> is_ready,
      state |-> "UNKNOWN",
      waiting_for_packet |-> None,
      last_packet_sent_timestamp |-> 0,
      attempts |-> 0,
      lost_timestamp |-> 0,
      reading_registers_timestamp |-> 0,
      reading_register_address |-> -1,       \* -1: None
      reading_register_type |-> None ]

\* waiting_for_packet setter
SetWaitingForPacket(dev, packet_type, t) ==
    IF packet_type # None
    THEN [dev EXCEPT !.waiting_for_packet = packet_type,
                     !.last_packet_sent_timestamp = t,
                     !.attempts = @ + 1]
    ELSE [dev EXCEPT !.waiting_for_packet = None]

\* reset_communication
ResetCommunication(dev) ==
    [dev EXCEPT !.waiting_for_packet = None, !.attempts = 0]

\* set_reading_register / reset_reading_register
SetReadingRegister(dev, register_address, register_type) ==
    [dev EXCEPT !.reading_register_address = register_address,
                !.reading_register_type = register_type]

ResetReadingRegister(dev, reset_timestamp, t) ==
    [dev EXCEPT !.reading_registers_timestamp = IF reset_timestamp THEN 0 ELSE t,
                !.reading_register_address = -1,
                !.reading_register_type = None]

\* state setter
SetState(dev, new_state, t) ==
    LET d1 == IF new_state = "RUNNING"
              THEN [ResetReadingRegister(dev, TRUE, t) EXCEPT !.lost_timestamp = 0]
              ELSE dev
        d2 == IF new_state = "UNKNOWN"
              THEN ResetCommunication(
                     IF dev.state # "UNKNOWN" THEN [d1 EXCEPT !.lost_timestamp = t] ELSE d1)
              ELSE d1
    IN  [d2 EXCEPT !.state = new_state]

\* is_device_running
IsRunningWhateverState(dev) == TRUE

IsRunning(dev) == dev.state = "RUNNING"
IsLost(dev) == dev.lost_timestamp # 0
IsUnknown(dev) == dev.state = "UNKNOWN"

\* DevicesRegistry.set_device_is_lost
SetDeviceIsLost(dev, t) == SetState(dev, "UNKNOWN", t)

\* DevicesRegistry.get_by_address: the first record holding the address, or None (0)
GetByAddress(devs, address) ==
    IF \E d \in DOMAIN devs : DeviceAddress(d) = address
    THEN CHOOSE d \in DOMAIN devs :
            /\ DeviceAddress(d) = address
            /\ \A e \in DOMAIN devs : DeviceAddress(e) = address => d <= e
    ELSE 0

----------------------------------------------------------------------------
(* registry/records.py: RegisterRecord *)

NewRegisterRecord(actual) ==
    [ actual_value |-> actual,
      expected_value |-> NoneValue,
      expected_pending |-> -1 ]           \* -1: None

\* expected_value setter
ExpectedValueSetter(reg, value) ==
    IF value # NoneValue
    THEN [reg EXCEPT !.expected_value = value, !.expected_pending = -1]
    ELSE [reg EXCEPT !.expected_value = value]

\* actual_value setter
ActualValueSetter(reg, value) ==
    LET r1 == [reg EXCEPT !.actual_value = value]
    IN  IF value = reg.expected_value
        THEN [ExpectedValueSetter(r1, NoneValue) EXCEPT !.expected_pending = -1]
        ELSE r1

\* RegistersRegistry.set_actual_value / set_expected_value / set_expected_pending:
\* the record is changed whether or not it is still in the registry; __update
\* stores it only when a record with its id is there
SetActualValue(regs, r, value) ==
    IF r \in DOMAIN regs THEN [regs EXCEPT ![r] = ActualValueSetter(@, value)] ELSE regs

SetExpectedValue(regs, r, value) ==
    IF r \in DOMAIN regs THEN [regs EXCEPT ![r] = ExpectedValueSetter(@, value)] ELSE regs

SetExpectedPending(regs, r, t) ==
    IF r \in DOMAIN regs THEN [regs EXCEPT ![r].expected_pending = t] ELSE regs

\* RegistersRegistry.get_all_for_device, in insertion (address) order
RECURSIVE RegistersFrom(_, _, _, _)
RegistersFrom(regs, d, t, a) ==
    IF a > MaxRegisterAddress THEN <<>>
    ELSE (IF Register(d, t, a) \in DOMAIN regs THEN <<Register(d, t, a)>> ELSE <<>>)
         \o RegistersFrom(regs, d, t, a + 1)

GetAllForDevice(regs, d, t) == RegistersFrom(regs, d, t, 0)

\* RegistersRegistry.get_by_address
HasRegister(regs, d, t, a) == Register(d, t, a) \in DOMAIN regs

\* RegistersRegistry.get_by_name
GetByName(regs, d, name) ==
    { r \in DOMAIN regs : r.device = d /\ r.type = "ATTRIBUTE" /\ NameOf(r) = name }

----------------------------------------------------------------------------
(* api/v1validator.py; a payload is a sequence of bytes, byte i is p[i + 1] *)

PairingResponseValues == {81, 83, 85, 87}

OpcodeByte(p) == p[2]

\* validate_version: ProtocolVersion(int(payload[0])) == V1.  The enum has the
\* single member V1, so the call returns True or raises (IndexError on an
\* empty payload, ValueError on any other version byte)
ValidateVersionRaises(p) == Len(p) < 1 \/ p[1] # ProtocolVersionV1

\* validate_<packet>: Packet(int(payload[1])) == Packet.<packet>
ValidatePacketRaises(p) == Len(p) < 2 \/ ~PacketHasValue(OpcodeByte(p))
ValidatePacket(p, name) == PacketOf(OpcodeByte(p)) = name

\* validate_pair_command_*: PairingResponse(int(payload[2])) == ...
ValidatePairCommandRaises(p) == Len(p) < 3 \/ p[3] \notin PairingResponseValues

InboundPackets ==
    {"READ_SINGLE_REGISTER", "READ_MULTIPLE_REGISTERS", "WRITE_SINGLE_REGISTER",
     "WRITE_MULTIPLE_REGISTERS", "REPORT_SINGLE_REGISTER", "READ_STATE",
     "WRITE_STATE", "REPORT_STATE", "PUB_SUB_WRITE_REGISTER_KEY",
     "PUB_SUB_BROADCAST_REGISTER_VALUE", "PONG"}

\* validate: "raise", "true" or "false"
Validate(p) ==
    IF ValidateVersionRaises(p) \/ ValidatePacketRaises(p) THEN "raise"
    ELSE IF ValidatePacket(p, "DISCOVER")
         THEN (IF ValidatePairCommandRaises(p) THEN "raise" ELSE "true")
         ELSE IF PacketOf(OpcodeByte(p)) \in InboundPackets THEN "true" ELSE "false"

----------------------------------------------------------------------------
(* utilities/helpers.py and api/v1parser.py *)

\* struct.unpack("<I", value[0:4])
UnpackUInt32(bs) == bs[1] + 256 * bs[2] + 65536 * bs[3] + 16777216 * bs[4]

\* struct.unpack("<i", value[0:4]): the top bit of the last byte is the sign
UnpackInt32(bs) ==
    IF bs[4] >= 128
    THEN (bs[1] + 256 * bs[2] + 65536 * bs[3] + 16777216 * (bs[4] - 128) - 1073741824)
         - 1073741824
    ELSE UnpackUInt32(bs)

\* transform_value_from_bytes
TransformValueFromBytes(data_type, bs) ==
    CASE data_type \in {"UINT8", "UINT16", "UINT32"} -> IntValue(UnpackUInt32(bs))
      [] data_type \in {"INT8", "INT16", "INT32"} -> IntValue(UnpackInt32(bs))
      [] data_type = "BOOLEAN" -> [k |-> "bool", v |-> IF UnpackUInt32(bs) = 65280 THEN 1 ELSE 0]
      [] data_type = "STRING" -> StrValue
      [] OTHER -> NoneValue

ParseFailure == [ok |-> FALSE]

Entity(cls, address, state, type, vals) ==
    [ok |-> TRUE, cls |-> cls, device_address |-> address, device_state |-> state,
     register_type |-> type, values |-> vals]

DeviceStateEntities == {"GetDeviceStateEntity", "SetDeviceStateEntity", "ReportDeviceStateEntity"}
SingleRegisterEntities ==
    {"ReadSingleRegisterEntity", "WriteSingleRegisterEntity", "ReportSingleRegisterEntity"}
MultipleRegistersEntities == {"ReadMultipleRegistersEntity", "WriteMultipleRegistersEntity"}

\* __parse_device_state, on payload[2:]
ParseDeviceState(cls, p, length, address) ==
    IF length # 3 THEN ParseFailure
    ELSE IF ~ConnectionStateHasValue(p[3]) THEN ParseFailure
    ELSE Entity(cls, address, ConnectionStateOf(p[3]), None, <<>>)

\* parse_pong_response
ParsePongResponse(length, address) ==
    IF length # 2 THEN ParseFailure
    ELSE Entity("ReportDeviceStateEntity", address, "UNKNOWN", None, <<>>)

\* parse_{read,write,report}_single_register_value with __parse_single_register_value
ParseSingleRegisterValue(cls, p, length, address, devs, regs) ==
    IF length # 9 THEN ParseFailure
    ELSE IF GetByAddress(devs, address) = 0 THEN ParseFailure
    ELSE IF ~RegisterTypeHasValue(p[3]) THEN ParseFailure
    ELSE LET register_type == RegisterTypeOf(p[3])
             register_address == p[4] * 256 + p[5]
             r == Register(GetByAddress(devs, address), register_type, register_address)
         IN  IF r \notin DOMAIN regs THEN ParseFailure
             ELSE IF DataTypeOf(r) \notin ParsableDataTypes THEN ParseFailure
             ELSE Entity(cls, address, None, register_type,
                         << [address |-> register_address,
                             value |-> TransformValueFromBytes(DataTypeOf(r), SubSeq(p, 6, Len(p)))] >>)

\* the while loop of __parse_multiple_registers_values; q is payload[2:]
RECURSIVE ParseValuesLoop(_, _, _, _, _, _, _, _, _, _)
ParseValuesLoop(regs, d, register_type, q, length, position_byte, register_address, processed, registers_count, acc) ==
    IF ~((position_byte + 3) < length /\ processed < registers_count)
    THEN [ok |-> TRUE, values |-> acc]
    ELSE LET r == Register(d, register_type, register_address)
         IN  IF r \notin DOMAIN regs THEN [ok |-> FALSE, values |-> <<>>]
             ELSE IF DataTypeOf(r) \notin ParsableDataTypes THEN [ok |-> FALSE, values |-> <<>>]
             ELSE ParseValuesLoop(regs, d, register_type, q, length, position_byte + 4,
                    register_address + 1, processed + 1, registers_count,
                    Append(acc, [address |-> register_address,
                                 value |-> TransformValueFromBytes(DataTypeOf(r),
                                              SubSeq(q, position_byte + 1, Len(q)))]))

\* parse_{read,write}_multiple_registers_values with __parse_multiple_registers_values
ParseMultipleRegistersValues(cls, p, length, address, devs, regs) ==
    IF length < 10 THEN ParseFailure
    ELSE IF GetByAddress(devs, address) = 0 THEN ParseFailure
    ELSE IF ~RegisterTypeHasValue(p[3]) THEN ParseFailure
    ELSE LET q == SubSeq(p, 3, Len(p))
             res == ParseValuesLoop(regs, GetByAddress(devs, address), RegisterTypeOf(q[1]), q,
                                    length - 2, 4, q[2] * 256 + q[3], 0, q[4], <<>>)
         IN  IF res.ok THEN Entity(cls, address, None, RegisterTypeOf(q[1]), res.values)
             ELSE ParseFailure

\* parse_message, after validate returned True; the pub/sub and pairing
\* opcodes, whose parsers are not part of the modelled traffic, and every
\* opcode without a parser end in the ParsePayloadException of the last line
ParseMessage(p, length, address, devs, regs) ==
    LET packet == PacketOf(OpcodeByte(p))
    IN  CASE packet = "READ_SINGLE_REGISTER" ->
                ParseSingleRegisterValue("ReadSingleRegisterEntity", p, length, address, devs, regs)
          [] packet = "READ_MULTIPLE_REGISTERS" ->
                ParseMultipleRegistersValues("ReadMultipleRegistersEntity", p, length, address, devs, regs)
          [] packet = "WRITE_SINGLE_REGISTER" ->
                ParseSingleRegisterValue("WriteSingleRegisterEntity", p, length, address, devs, regs)
          [] packet = "WRITE_MULTIPLE_REGISTERS" ->
                ParseMultipleRegistersValues("WriteMultipleRegistersEntity", p, length, address, devs, regs)
          [] packet = "REPORT_SINGLE_REGISTER" ->
                ParseSingleRegisterValue("ReportSingleRegisterEntity", p, length, address, devs, regs)
          [] packet = "READ_STATE" -> ParseDeviceState("GetDeviceStateEntity", p, length, address)
          [] packet = "WRITE_STATE" -> ParseDeviceState("SetDeviceStateEntity", p, length, address)
          [] packet = "REPORT_STATE" -> ParseDeviceState("ReportDeviceStateEntity", p, length, address)
          [] packet = "PONG" -> ParsePongResponse(length, address)
          [] OTHER -> ParseFailure

----------------------------------------------------------------------------
(* receivers/device.py, receivers/registers.py *)

\* DeviceItemReceiver.receive
DeviceItemReceive(devs, entity, t) ==
    IF entity.cls \notin DeviceStateEntities THEN devs
    ELSE LET d == GetByAddress(devs, entity.device_address)
         IN  IF d = 0 THEN devs
             ELSE [devs EXCEPT ![d] = ResetCommunication(SetState(@, entity.device_state, t))]

\* RegisterItemReceiver.__write_value_to_register
WriteValueToRegister(regs, r, value) ==
    IF value # NoneValue THEN SetActualValue(regs, r, value) ELSE regs

\* the loop over entity.registers_values: an unknown register is skipped
RECURSIVE WriteValues(_, _, _, _, _)
WriteValues(regs, d, register_type, vals, i) ==
    IF i > Len(vals) THEN regs
    ELSE WriteValues(
            IF HasRegister(regs, d, register_type, vals[i].address)
            THEN WriteValueToRegister(regs, Register(d, register_type, vals[i].address), vals[i].value)
            ELSE regs,
            d, register_type, vals, i + 1)

\* RegistersRegistry.set_actual_value propagates the record to the consumer:
\* the addresses of the registers propagated by the loop, in call order
RECURSIVE PropagatedValues(_, _, _, _, _)
PropagatedValues(regs, d, register_type, vals, i) ==
    IF i > Len(vals) THEN <<>>
    ELSE (IF HasRegister(regs, d, register_type, vals[i].address) /\ vals[i].value # NoneValue
          THEN <<vals[i].address>> ELSE <<>>)
         \o PropagatedValues(regs, d, register_type, vals, i + 1)

\* what RegisterItemReceiver.receive propagates for an entity
ReceivePropagates(devs, regs, entity) ==
    LET d == GetByAddress(devs, entity.device_address)
    IN  IF entity.cls \notin (SingleRegisterEntities \cup MultipleRegistersEntities) THEN <<>>
        ELSE IF d = 0 THEN <<>>
        ELSE PropagatedValues(regs, d, entity.register_type, entity.values, 1)

\* RegisterItemReceiver.receive
RegisterItemReceive(devs, regs, entity, t) ==
    LET d == GetByAddress(devs, entity.device_address)
        unchanged == [devices |-> devs, registers |-> regs]
    IN  IF entity.cls \notin (SingleRegisterEntities \cup MultipleRegistersEntities) THEN unchanged
        ELSE IF d = 0 THEN unchanged
        ELSE IF entity.cls \in SingleRegisterEntities
                /\ ~HasRegister(regs, d, entity.register_type, entity.values[1].address)
             THEN unchanged
        ELSE [ registers |-> WriteValues(regs, d, entity.register_type, entity.values, 1),
               devices |->
                 IF entity.cls = "ReportSingleRegisterEntity"
                 THEN [devs EXCEPT ![d] = ResetReadingRegister(@, FALSE, t)]
                 ELSE [devs EXCEPT ![d] = ResetCommunication(@)] ]

\* Receiver.loop: the entity is handed to every receiver
ReceiverDispatch(devs, regs, entity, t) ==
    RegisterItemReceive(DeviceItemReceive(devs, entity, t), regs, entity, t)

----------------------------------------------------------------------------
(* publishers/apiv1.py.  A publisher context carries the registries, the     *)
(* packets submitted to the transport so far (sent) and the writes canceled  *)
(* by the builder (canceled); res gives the transport's answer to the i-th   *)
(* submission of the tick.                                                   *)

MaxSends == 1

TransportResults == [1..MaxSends -> BOOLEAN]

Min(a, b) == IF a < b THEN a ELSE b

NextResult(ctx, res) == res[Min(Len(ctx.sent) + 1, MaxSends)]

\* transporter.send_packet
SendPacket(ctx, d, address, packet, register_type, start, count, res) ==
    [ctx EXCEPT !.sent = Append(@,
        [ device |-> d, address |-> address, packet |-> packet,
          register_type |-> register_type, start |-> start, count |-> count,
          result |-> NextResult(ctx, res),
          before |-> ctx.devices[d], after |-> ctx.devices[d] ])]

\* __validate_result; the device as the call leaves it is noted on the
\* submission it follows
Validated(ctx, d) == [ctx EXCEPT !.sent[Len(ctx.sent)].after = ctx.devices[d]]

ValidateResult(ctx, d, packet_type, result, t) ==
    LET c1 == [ctx EXCEPT !.devices[d] = SetWaitingForPacket(@, packet_type, t)]
    IN  IF ~result
        THEN Validated([c1 EXCEPT !.devices[d] = SetWaitingForPacket(@, None, t)], d)
        ELSE Validated(c1, d)

\* __get_address_for_device; -1: None
GetAddressForDevice(regs, d) ==
    LET rs == GetByName(regs, d, "address")
    IN  IF rs = {} THEN -1
        ELSE LET actual == regs[CHOOSE r \in rs : TRUE].actual_value
             IN  IF actual.k = "int" THEN actual.v ELSE -1

\* __get_max_packet_length_for_device
GetMaxPacketLengthForDevice(regs, d) ==
    LET rs == GetByName(regs, d, "max_packet_length")
    IN  IF rs = {} THEN DEFAULT_MAX_PACKET_LENGTH
        ELSE LET actual == regs[CHOOSE r \in rs : TRUE].actual_value
             IN  IF actual.k = "int" THEN actual.v ELSE DEFAULT_MAX_PACKET_LENGTH

\* __send_ping_handler
SendPingHandler(ctx, d, address, res, t) ==
    ValidateResult(SendPacket(ctx, d, address, "PING", None, -1, 0, res),
                   d, "PONG", NextResult(ctx, res), t)

\* __send_read_device_state_handler
SendReadDeviceStateHandler(ctx, d, address, res, t) ==
    LET rs == GetByName(ctx.registers, d, "state")
    IN  IF rs = {} THEN ctx
        ELSE LET r == CHOOSE x \in rs : TRUE
             IN  ValidateResult(
                    SendPacket(ctx, d, address, "READ_SINGLE_REGISTER", r.type, r.address, 1, res),
                    d, "READ_SINGLE_REGISTER", NextResult(ctx, res), t)

\* V1Builder.build_write_single_register_value raises BuildPayloadException
BuildRaises(data_type, value) ==
    ~(data_type \in NumericDataTypes /\ value.k \in {"int", "bool"})

\* __write_value_to_single_register; ret is the returned flag
WriteValueToSingleRegisterKeepingExpected(ctx, d, address, r, res, t) ==
    IF BuildRaises(DataTypeOf(r), ctx.registers[r].expected_value)
    THEN [ctx EXCEPT !.ret = FALSE, !.raised = TRUE]
    ELSE [ValidateResult(
            SendPacket(ctx, d, address, "WRITE_SINGLE_REGISTER", r.type, r.address, 1, res),
            d, "WRITE_SINGLE_REGISTER", NextResult(ctx, res), t)
          EXCEPT !.ret = NextResult(ctx, res)]

WriteValueToSingleRegister(ctx, d, address, r, res, t) ==
    IF BuildRaises(DataTypeOf(r), ctx.registers[r].expected_value)
    THEN [ctx EXCEPT !.registers = SetExpectedValue(@, r, NoneValue),
                     !.ret = FALSE, !.raised = TRUE]
    ELSE [ValidateResult(
            SendPacket(ctx, d, address, "WRITE_SINGLE_REGISTER", r.type, r.address, 1, res),
            d, "WRITE_SINGLE_REGISTER", NextResult(ctx, res), t)
          EXCEPT !.ret = NextResult(ctx, res)]

\* a write the builder refused is noted with the device and the submissions
\* as they were before and after the refused call
NoteCanceled(before, after, d, r) ==
    IF after.raised
    THEN [after EXCEPT !.raised = FALSE,
                       !.canceled = Append(@, [ register |-> r,
                                                before |-> before.devices[d],
                                                after |-> after.devices[d],
                                                sent_before |-> Len(before.sent),
                                                sent_after |-> Len(after.sent) ])]
    ELSE after

\* __write_single_register: the loop over the registers of one type
RECURSIVE WriteSingleRegister(_, _, _, _, _, _, _)
WriteSingleRegister(ctx, d, address, rs, i, res, t) ==
    IF i > Len(rs) THEN [ctx EXCEPT !.ret = FALSE]
    ELSE LET reg == ctx.registers[rs[i]]
         IN  IF reg.expected_value # NoneValue /\ reg.expected_pending = -1
             THEN LET c1 == NoteCanceled(ctx,
                                WriteValueToSingleRegister(ctx, d, address, rs[i], res, t),
                                d, rs[i])
                  IN  IF c1.ret
                      THEN [c1 EXCEPT !.registers = SetExpectedPending(@, rs[i], t), !.ret = TRUE]
                      ELSE WriteSingleRegister(c1, d, address, rs, i + 1, res, t)
             ELSE WriteSingleRegister(ctx, d, address, rs, i + 1, res, t)

\* __write_register_handler
WriteRegisterHandler(ctx, d, address, res, t) ==
    LET c1 == WriteSingleRegister(ctx, d, address,
                                  GetAllForDevice(ctx.registers, d, "OUTPUT"), 1, res, t)
    IN  IF c1.ret THEN c1
        ELSE WriteSingleRegister(c1, d, address,
                                 GetAllForDevice(c1.registers, d, "ATTRIBUTE"), 1, res, t)

\* __update_reading_pointer
UpdateReadingPointer(ctx, d) ==
    LET current == ctx.devices[d].reading_register_type
        candidates == { i \in 1..3 :
                          LET register_type == <<"INPUT", "OUTPUT", "ATTRIBUTE">>[i]
                          IN  /\ (current = None \/ current # register_type)
                              /\ Len(GetAllForDevice(ctx.registers, d, register_type)) > 0 }
    IN  IF candidates = {} THEN ctx
        ELSE LET first == CHOOSE i \in candidates : \A j \in candidates : i <= j
             IN  [ctx EXCEPT !.devices[d] =
                    SetReadingRegister(@, 0, <<"INPUT", "OUTPUT", "ATTRIBUTE">>[first])]

\* __read_multiple_registers
ReadMultipleRegistersKeepingPointer(ctx, d, address, register_type, start, res, t) ==
    LET register_size == Len(GetAllForDevice(ctx.registers, d, register_type))
        start_address == IF start = -1 THEN 0 ELSE start
        max_readable_registers_count == (GetMaxPacketLengthForDevice(ctx.registers, d) - 8) \div 4
        read_length == IF start_address + max_readable_registers_count >= register_size
                       THEN register_size - start_address
                       ELSE max_readable_registers_count
    IN  IF register_type \notin {"INPUT", "OUTPUT"} THEN UpdateReadingPointer(ctx, d)
        ELSE IF read_length <= 0 THEN UpdateReadingPointer(ctx, d)
        ELSE LET c1 == ValidateResult(
                          SendPacket(ctx, d, address, "READ_MULTIPLE_REGISTERS", register_type,
                                     start_address, read_length, res),
                          d, "READ_MULTIPLE_REGISTERS", NextResult(ctx, res), t)
             IN  IF NextResult(ctx, res) /\ start_address + read_length >= register_size
                 THEN UpdateReadingPointer(c1, d)
                 ELSE c1

ReadMultipleRegisters(ctx, d, address, register_type, start, res, t) ==
    LET register_size == Len(GetAllForDevice(ctx.registers, d, register_type))
        start_address == IF start = -1 THEN 0 ELSE start
        max_readable_registers_count == (GetMaxPacketLengthForDevice(ctx.registers, d) - 8) \div 4
        max_readable_addresses == start_address + max_readable_registers_count - 1
        read_length == IF (max_readable_addresses + 1) >= register_size
                       THEN (IF start_address = 0 THEN register_size
                             ELSE register_size - start_address)
                       ELSE max_readable_registers_count
        next_address == start_address + read_length
    IN  IF register_type \notin {"INPUT", "OUTPUT"} THEN UpdateReadingPointer(ctx, d)
        ELSE IF read_length <= 0 THEN UpdateReadingPointer(ctx, d)
        ELSE LET c1 == ValidateResult(
                          SendPacket(ctx, d, address, "READ_MULTIPLE_REGISTERS", register_type,
                                     start_address, read_length, res),
                          d, "READ_MULTIPLE_REGISTERS", NextResult(ctx, res), t)
             IN  IF NextResult(ctx, res)
                 THEN (IF (next_address + 1) > register_size
                       THEN UpdateReadingPointer(c1, d)
                       ELSE [c1 EXCEPT !.devices[d] =
                                SetReadingRegister(@, next_address, register_type)])
                 ELSE c1

\* __read_registers_handler
ReadRegistersHandler(ctx, d, address, res, t) ==
    LET c1 == IF ctx.devices[d].reading_register_type = None
              THEN UpdateReadingPointer(ctx, d) ELSE ctx
    IN  IF c1.devices[d].reading_register_type # None
        THEN ReadMultipleRegisters(c1, d, address, c1.devices[d].reading_register_type,
                                   c1.devices[d].reading_register_address, res, t)
        ELSE c1

\* the gate of handle: nothing is awaited, or the response delay has passed
GateOpenAlways(dev, t) == TRUE

GateOpen(dev, t) ==
    dev.waiting_for_packet = None \/ t - dev.last_packet_sent_timestamp >= PACKET_RESPONSE_DELAY

\* the branch of handle taken once MAX_TRANSMIT_ATTEMPTS is reached
AttemptsReached(ctx, d, address, res, t) ==
    IF IsLost(ctx.devices[d])
    THEN [ctx EXCEPT !.devices[d] = ResetCommunication(@)]
    ELSE [ctx EXCEPT !.devices[d] = SetDeviceIsLost(@, t)]

\* ApiV1Publisher.handle
HandlePingingAtOnce(ctx, d, res, t) ==
    LET dev == ctx.devices[d]
        address == GetAddressForDevice(ctx.registers, d)
    IN  IF address = -1 THEN [ctx EXCEPT !.devices[d].enabled = FALSE]
        ELSE IF dev.attempts >= MAX_TRANSMIT_ATTEMPTS THEN AttemptsReached(ctx, d, address, res, t)
        ELSE IF IsLost(dev)
             THEN SendPingHandler(ctx, d, address, res, t)
        ELSE IF ~GateOpen(dev, t) THEN ctx
        ELSE IF IsUnknown(dev) THEN SendReadDeviceStateHandler(ctx, d, address, res, t)
        ELSE IF ~IsRunning(dev) THEN ctx
        ELSE LET c1 == WriteRegisterHandler(ctx, d, address, res, t)
             IN  IF c1.ret THEN c1
                 ELSE IF t - c1.devices[d].reading_registers_timestamp >= SAMPLING_TIME
                      THEN ReadRegistersHandler(c1, d, address, res, t)
                      ELSE c1

Handle(ctx, d, res, t) ==
    LET dev == ctx.devices[d]
        address == GetAddressForDevice(ctx.registers, d)
    IN  IF address = -1 THEN [ctx EXCEPT !.devices[d].enabled = FALSE]
        ELSE IF dev.attempts >= MAX_TRANSMIT_ATTEMPTS THEN AttemptsReached(ctx, d, address, res, t)
        ELSE IF IsLost(dev)
             THEN (IF t - dev.last_packet_sent_timestamp >= PING_DELAY
                   THEN SendPingHandler(ctx, d, address, res, t) ELSE ctx)
        ELSE IF ~GateOpen(dev, t) THEN ctx
        ELSE IF IsUnknown(dev) THEN SendReadDeviceStateHandler(ctx, d, address, res, t)
        ELSE IF ~IsRunning(dev) THEN ctx
        ELSE LET c1 == WriteRegisterHandler(ctx, d, address, res, t)
             IN  IF c1.ret THEN c1
                 ELSE IF t - c1.devices[d].reading_registers_timestamp >= SAMPLING_TIME
                      THEN ReadRegistersHandler(c1, d, address, res, t)
                      ELSE c1

\* Publisher.handle: every enabled device of the registry, in registry order;
\* each pass is noted with the device before and after it
RECURSIVE PublisherLoop(_, _, _, _)
PublisherLoop(ctx, d, res, t) ==
    IF \A e \in DOMAIN ctx.devices : e < d THEN ctx
    ELSE IF d \notin DOMAIN ctx.devices THEN PublisherLoop(ctx, d + 1, res, t)
    ELSE IF ~(ctx.devices[d].enabled /\ ctx.devices[d].ready)
         THEN PublisherLoop(ctx, d + 1, res, t)
    ELSE LET c1 == Handle([ctx EXCEPT !.ret = FALSE], d, res, t)
         IN  PublisherLoop(
                [c1 EXCEPT !.passes = Append(@,
                    [ device |-> d, before |-> ctx.devices[d], after |-> c1.devices[d],
                      first |-> Len(ctx.sent) + 1, last |-> Len(c1.sent),
                      resolved |-> GetAddressForDevice(ctx.registers, d) # -1 ])],
                d + 1, res, t)

----------------------------------------------------------------------------
(* fb_bus_connector_plugin/publishers: the publisher proxy that remembers the *)
(* devices it has processed, over a handle that tells whether it did          *)
(* something.  The context carries processed, the proxy's list.               *)

\* __validate_result
PluginValidateResult(ctx, d, packet_type, result, t) ==
    Validated([ctx EXCEPT !.devices[d] =
                  SetWaitingForPacket(@, IF result THEN packet_type ELSE None, t)], d)

\* __update_reading_pointer
PluginUpdateReadingPointer(ctx, d, t) ==
    IF /\ ctx.devices[d].reading_register_type = "INPUT"
       /\ Len(GetAllForDevice(ctx.registers, d, "OUTPUT")) > 0
    THEN [ctx EXCEPT !.devices[d] = SetReadingRegister(@, 0, "OUTPUT")]
    ELSE [ctx EXCEPT !.devices[d] = ResetReadingRegister(@, FALSE, t)]

\* __read_multiple_registers; ret is the returned flag
PluginReadMultipleRegisters(ctx, d, register_type, start, res, t) ==
    LET register_size == Len(GetAllForDevice(ctx.registers, d, register_type))
        start_address == IF start = -1 THEN 0 ELSE start
        max_readable_registers_count == (DEFAULT_MAX_PACKET_LENGTH - 8) \div 4
        max_readable_addresses == start_address + max_readable_registers_count - 1
        read_length == IF (max_readable_addresses + 1) >= register_size
                       THEN (IF start_address = 0 THEN register_size
                             ELSE register_size - start_address)
                       ELSE max_readable_registers_count
        next_address == start_address + read_length
    IN  IF register_type \notin {"INPUT", "OUTPUT"} THEN [ctx EXCEPT !.ret = FALSE]
        ELSE IF read_length <= 0 THEN [ctx EXCEPT !.ret = FALSE]
        ELSE LET c1 == PluginValidateResult(
                          SendPacket(ctx, d, DeviceAddress(d), "READ_MULTIPLE_REGISTERS",
                                     register_type, start_address, read_length, res),
                          d, "READ_MULTIPLE_REGISTERS", NextResult(ctx, res), t)
                 c2 == [c1 EXCEPT !.devices[d] =
                           SetReadingRegister(@, next_address, register_type)]
             IN  [(IF ~NextResult(ctx, res) THEN c1
                   ELSE IF (next_address + 1) > register_size
                        THEN PluginUpdateReadingPointer(c2, d, t)
                        ELSE c2)
                  EXCEPT !.ret = TRUE]

\* __read_registers_handler
PluginReadRegistersHandler(ctx, d, res, t) ==
    LET current == ctx.devices[d].reading_register_type
        candidates == { i \in 1..3 :
                          LET register_type == <<"INPUT", "OUTPUT", "ATTRIBUTE">>[i]
                          IN  /\ Len(GetAllForDevice(ctx.registers, d, register_type)) > 0
                              /\ (current = register_type \/ current = None) }
    IN  IF candidates = {} THEN [ctx EXCEPT !.ret = FALSE]
        ELSE LET first == CHOOSE i \in candidates : \A j \in candidates : i <= j
             IN  PluginReadMultipleRegisters(ctx, d, <<"INPUT", "OUTPUT", "ATTRIBUTE">>[first],
                                             ctx.devices[d].reading_register_address, res, t)

\* __write_single_register_handler over __write_value_to_single_register
RECURSIVE PluginWriteSingleRegisterHandler(_, _, _, _, _, _)
PluginWriteSingleRegisterHandler(ctx, d, rs, i, res, t) ==
    IF i > Len(rs) THEN [ctx EXCEPT !.ret = FALSE]
    ELSE LET reg == ctx.registers[rs[i]]
             sendable == ~BuildRaises(DataTypeOf(rs[i]), reg.expected_value)
             c1 == PluginValidateResult(
                      SendPacket(ctx, d, DeviceAddress(d), "WRITE_SINGLE_REGISTER",
                                 rs[i].type, rs[i].address, 1, res),
                      d, "WRITE_SINGLE_REGISTER", NextResult(ctx, res), t)
         IN  IF reg.expected_value # NoneValue /\ reg.expected_pending = -1
             THEN (IF sendable /\ NextResult(ctx, res)
                   THEN [c1 EXCEPT !.registers = SetExpectedPending(@, rs[i], t), !.ret = TRUE]
                   ELSE PluginWriteSingleRegisterHandler(IF sendable THEN c1 ELSE ctx,
                                                         d, rs, i + 1, res, t))
             ELSE PluginWriteSingleRegisterHandler(ctx, d, rs, i + 1, res, t)

\* __write_register_handler
PluginWriteRegisterHandler(ctx, d, res, t) ==
    LET c1 == PluginWriteSingleRegisterHandler(
                 ctx, d, GetAllForDevice(ctx.registers, d, "OUTPUT"), 1, res, t)
    IN  IF c1.ret THEN c1
        ELSE PluginWriteSingleRegisterHandler(
                 c1, d, GetAllForDevice(c1.registers, d, "ATTRIBUTE"), 1, res, t)

\* ApiV1Publisher.handle of the plugin; ret is the returned flag.  The devices
\* here have no PUB/SUB support, so __write_registers_keys_handler returns False
PluginHandle(ctx, d, res, t) ==
    LET dev == ctx.devices[d]
    IN  IF dev.attempts >= MAX_TRANSMIT_ATTEMPTS
        THEN [AttemptsReached(ctx, d, DeviceAddress(d), res, t) EXCEPT !.ret = TRUE]
        ELSE IF IsLost(dev)
             THEN [(IF t - dev.last_packet_sent_timestamp >= PING_DELAY
                    THEN PluginValidateResult(
                            SendPacket(ctx, d, DeviceAddress(d), "PING", None, -1, 0, res),
                            d, "PONG", NextResult(ctx, res), t)
                    ELSE ctx)
                   EXCEPT !.ret = TRUE]
        ELSE IF ~GateOpen(dev, t) THEN [ctx EXCEPT !.ret = FALSE]
        ELSE IF IsUnknown(dev)
             THEN [PluginValidateResult(
                      SendPacket(ctx, d, DeviceAddress(d), "READ_STATE", None, -1, 0, res),
                      d, "READ_STATE", NextResult(ctx, res), t)
                   EXCEPT !.ret = TRUE]
        ELSE IF ~IsRunning(dev) THEN [ctx EXCEPT !.ret = FALSE]
        ELSE LET c1 == IF t - dev.reading_registers_timestamp >= SAMPLING_TIME
                       THEN PluginReadRegistersHandler(ctx, d, res, t)
                       ELSE [ctx EXCEPT !.ret = FALSE]
             IN  IF c1.ret THEN c1 ELSE PluginWriteRegisterHandler(c1, d, res, t)

\* the for loop of Publisher.loop, in registry order; a device whose handle
\* returned True joins the processed devices
RECURSIVE PluginPublisherDevices(_, _, _, _)
PluginPublisherDevices(ctx, d, res, t) ==
    IF \A e \in DOMAIN ctx.devices : e < d THEN ctx
    ELSE IF d \notin DOMAIN ctx.devices THEN PluginPublisherDevices(ctx, d + 1, res, t)
    ELSE IF ~(/\ \A i \in 1..Len(ctx.processed) : ctx.processed[i] # d
              /\ ctx.devices[d].enabled
              /\ ctx.devices[d].ready)
         THEN PluginPublisherDevices(ctx, d + 1, res, t)
    ELSE LET c1 == PluginHandle([ctx EXCEPT !.ret = FALSE], d, res, t)
         IN  PluginPublisherDevices(
                [c1 EXCEPT !.processed = IF c1.ret THEN Append(@, d) ELSE @,
                           !.passes = Append(@,
                    [ device |-> d, before |-> ctx.devices[d], after |-> c1.devices[d],
                      first |-> Len(ctx.sent) + 1, last |-> Len(c1.sent),
                      resolved |-> TRUE ])],
                d + 1, res, t)

\* Publisher.loop
PluginPublisherLoop(ctx, res, t) ==
    PluginPublisherDevices(
        IF Len(ctx.processed) >= Cardinality(DOMAIN ctx.devices)
        THEN [ctx EXCEPT !.processed = <<>>] ELSE ctx,
        1, res, t)

----------------------------------------------------------------------------
(* pairing/apiv1.py and receivers/pairing.py.  A pairing context carries the  *)
(* engine's fields, the registries and the packets handed to the transport.   *)
(* A device is identified by its serial number: append_device gives a         *)
(* discovered device the id of the registry device with its serial number,    *)
(* or a fresh id.                                                             *)

\* the pairing device when there is none
NoDiscoveredDevice == [serial_number |-> 0]

\* a handle that did not come to finalize a device
NotFinalized ==
    [ device |-> NoDiscoveredDevice, rows |-> {}, known |-> FALSE, devices |-> <<>>,
      registers |-> {}, sent |-> <<>> ]

\* a handle that did not give up the pairing device
NotAbandoned ==
    [ device |-> NoDiscoveredDevice, attempts |-> 0, rows |-> {}, waiting |-> FALSE,
      elapsed |-> 0 ]

\* the class attributes of ApiV1Pairing; a discovered device or register is a
\* record
NewPairing ==
    [ enabled |-> TRUE,
      discovered_devices |-> {},
      pairing_device |-> NoDiscoveredDevice,
      pairing_device_registers |-> {},
      last_request_send_timestamp |-> 0,
      waiting_for_reply |-> FALSE,
      discovery_attempts |-> 0,
      device_attempts |-> 0,
      total_attempts |-> 0,
      broadcasting_discovery_finished |-> FALSE ]

\* __reset_pointers
ResetPointers(pg) ==
    [pg EXCEPT !.discovered_devices = {}, !.pairing_device = NoDiscoveredDevice,
               !.pairing_device_registers = {}, !.last_request_send_timestamp = 0,
               !.waiting_for_reply = FALSE, !.discovery_attempts = 0,
               !.device_attempts = 0, !.total_attempts = 0,
               !.broadcasting_discovery_finished = FALSE]

\* enable / disable
PairingEnable(pg) == ResetPointers([pg EXCEPT !.enabled = TRUE])
PairingDisable(pg) == ResetPointers([pg EXCEPT !.enabled = FALSE])

\* a packet the engine hands to the transport for the discovered device cand:
\* broadcast_packet or send_packet(address), the transport's answer in accepted
BusPacket(kind, cand, packet, reg, value, accepted) ==
    [ kind |-> kind, packet |-> packet, serial_number |-> cand.serial_number,
      device_address |-> cand.address, register_type |-> reg.type,
      register_address |-> reg.address, value |-> value, accepted |-> accepted ]

\* __broadcast_discover_devices_handler: DISCOVER goes to every device;
\* discover notes the broadcast
BroadcastDiscoverDevicesHandlerUncounted(pc, t) ==
    [pc EXCEPT
       !.pairing = [@ EXCEPT !.total_attempts = @ + 1, !.last_request_send_timestamp = t],
       !.discover = TRUE]

BroadcastDiscoverDevicesHandler(pc, t) ==
    [pc EXCEPT
       !.pairing = [@ EXCEPT !.discovery_attempts = @ + 1, !.total_attempts = @ + 1,
                             !.last_request_send_timestamp = t],
       !.discover = TRUE]

\* set.pop() and next(iter(set)) take an arbitrary element: the one that comes
\* first in the given order
First(S, order) ==
    CHOOSE x \in S : \A y \in S : \E i \in 1..Len(order) :
        /\ order[i] = x.key
        /\ \A j \in 1..(i - 1) : order[j] # y.key

\* DevicesRegistry.get_by_address of the engine's registry: the device whose
\* "address" attribute holds the address, or None (0)
GetByAddressAttribute(devs, regs, address) ==
    IF \E d \in DOMAIN devs : GetAddressForDevice(regs, d) = address
    THEN CHOOSE d \in DOMAIN devs : GetAddressForDevice(regs, d) = address
    ELSE 0

\* append_device: a serial number already among the discovered devices is
\* ignored
AppendDeviceWhateverSerial(pg, entity) ==
    [pg EXCEPT !.discovered_devices = @ \cup
            {[ key |-> entity.device_serial_number,
               serial_number |-> entity.device_serial_number,
               address |-> entity.device_address,
               input_registers_size |-> entity.input_registers_size,
               output_registers_size |-> entity.output_registers_size,
               attributes_registers_size |-> entity.attributes_registers_size ]}]

AppendDevice(pg, entity) ==
    IF \E c \in pg.discovered_devices : c.serial_number = entity.device_serial_number
    THEN pg
    ELSE [pg EXCEPT !.discovered_devices = @ \cup
            {[ key |-> entity.device_serial_number,
               serial_number |-> entity.device_serial_number,
               address |-> entity.device_address,
               input_registers_size |-> entity.input_registers_size,
               output_registers_size |-> entity.output_registers_size,
               attributes_registers_size |-> entity.attributes_registers_size ]}]

\* a row of the pairing device's registers
DiscoveredRegister(register_type, address, data_type, name) ==
    [ key |-> <<register_type, address>>, type |-> register_type, address |-> address,
      data_type |-> data_type, name |-> name ]

\* append_input_register, append_output_register, append_attribute_register:
\* the reply is taken for the pairing device whoever sent it; a name is kept
\* for an attribute only
AppendRegister(pg, entity) ==
    LET p1 == [pg EXCEPT !.waiting_for_reply = FALSE]
        found == {r \in pg.pairing_device_registers :
                     r.type = entity.register_type /\ r.address = entity.register_address}
    IN  IF pg.pairing_device = NoDiscoveredDevice \/ found = {} THEN p1
        ELSE [p1 EXCEPT !.pairing_device_registers = (@ \ found) \cup
                {DiscoveredRegister(entity.register_type, entity.register_address,
                                    entity.register_data_type,
                                    IF entity.register_type = "ATTRIBUTE"
                                    THEN entity.register_name ELSE None)}]

\* PairingReceiver.receive; __receive_set_device_discovery also hands
\* append_device a device_state, which append_device has no parameter for: the
\* engine is modelled as called with the arguments it accepts
PairingReceive(pg, entity) ==
    CASE entity.cls = "DeviceDiscoveryEntity" -> AppendDevice(pg, entity)
      [] entity.cls = "RegisterStructureEntity"
            /\ entity.register_type \in {"INPUT", "OUTPUT", "ATTRIBUTE"} -> AppendRegister(pg, entity)
      [] OTHER -> pg

\* __configure_registers for the three banks: a row per advertised address,
\* its data type reset to UNKNOWN
ConfigureRegisters(cand) ==
    {DiscoveredRegister("INPUT", a, "UNKNOWN", None) : a \in 0..(cand.input_registers_size - 1)}
        \cup {DiscoveredRegister("OUTPUT", a, "UNKNOWN", None) :
                 a \in 0..(cand.output_registers_size - 1)}
        \cup {DiscoveredRegister("ATTRIBUTE", a, "UNKNOWN", None) :
                 a \in 0..(cand.attributes_registers_size - 1)}

\* the tests of __process_discovered_device on the address of the device it
\* has taken: another device of the registry holds it
AddressTakenNever(devs, regs, cand) == FALSE

AddressTaken(devs, regs, cand) ==
    LET holder == GetByAddressAttribute(devs, regs, cand.address)
    IN  IF cand.serial_number \in DOMAIN devs
        THEN holder # 0 /\ holder # cand.serial_number
        ELSE cand.address # ADDRESS_NOT_ASSIGNED /\ holder # 0

\* __process_discovered_device: popping the empty set of discovered devices
\* raises KeyError, which disables pairing; a device whose address another
\* registry device holds is passed over; popped notes the devices taken from
\* the set, with the registry as it was then
RECURSIVE ProcessDiscoveredDevice(_, _, _)
ProcessDiscoveredDevice(pc, order, t) ==
    LET p0 == [pc.pairing EXCEPT !.device_attempts = 0, !.total_attempts = 0,
                                 !.pairing_device = NoDiscoveredDevice, !.pairing_device_registers = {},
                                 !.waiting_for_reply = FALSE]
    IN  IF p0.discovered_devices = {} THEN [pc EXCEPT !.pairing = PairingDisable(p0)]
        ELSE LET cand == First(p0.discovered_devices, order.devices)
                 p1 == [p0 EXCEPT !.pairing_device = cand, !.discovered_devices = @ \ {cand}]
                 known == cand.serial_number \in DOMAIN pc.devices
                 taken == AddressTaken(pc.devices, pc.registers, cand)
                 c1 == [pc EXCEPT !.popped = Append(@, [ device |-> cand, skipped |-> taken,
                                                         devices |-> pc.devices,
                                                         registers |-> pc.registers ])]
             IN  IF taken THEN ProcessDiscoveredDevice([c1 EXCEPT !.pairing = p1], order, t)
                 ELSE [c1 EXCEPT
                         !.pairing = [p1 EXCEPT !.pairing_device_registers = ConfigureRegisters(cand)],
                         !.devices = IF known
                                     THEN [@ EXCEPT ![cand.serial_number] = SetState(@, "INIT", t)]
                                     ELSE @]

\* the structure request of a device without an address is broadcast, that of
\* any other device is sent to its address
StructureRequestAlwaysUnicast(cand) == FALSE

StructureRequestIsBroadcast(cand) == cand.address = ADDRESS_NOT_ASSIGNED

\* __send_provide_register_structure_handler
SendProvideRegisterStructureHandler(pc, reg, accepted, t) ==
    LET cand == pc.pairing.pairing_device
        broadcast == StructureRequestIsBroadcast(cand)
    IN  [pc EXCEPT
           !.pairing = [@ EXCEPT !.device_attempts = @ + 1, !.total_attempts = @ + 1,
                                 !.waiting_for_reply = broadcast \/ accepted,
                                 !.last_request_send_timestamp = t],
           !.bus = Append(@, BusPacket(IF broadcast THEN "broadcast" ELSE "unicast", cand,
                                       "READ_SINGLE_REGISTER_STRUCTURE", reg, None,
                                       broadcast \/ accepted))]

\* __finalize_device: the device and its registers are created or updated,
\* the registers without a value, then the device is enabled and set UNKNOWN
FinalizeDeviceLeavingDisabled(pc, cand, t) ==
    LET d == cand.serial_number
        rows == {Register(d, r.type, r.address) : r \in pc.pairing.pairing_device_registers}
        record == IF d \in DOMAIN pc.devices THEN pc.devices[d] ELSE NewDeviceRecord(FALSE, TRUE)
    IN  [pc EXCEPT
           !.devices = [e \in DOMAIN pc.devices \cup {d} |->
                          IF e = d THEN SetState(record, "UNKNOWN", t) ELSE pc.devices[e]],
           !.registers = [r \in DOMAIN pc.registers \cup rows |->
                            IF r \in DOMAIN pc.registers THEN pc.registers[r]
                            ELSE NewRegisterRecord(NoneValue)]]

FinalizeDevice(pc, cand, t) ==
    LET d == cand.serial_number
        rows == {Register(d, r.type, r.address) : r \in pc.pairing.pairing_device_registers}
        record == IF d \in DOMAIN pc.devices THEN pc.devices[d] ELSE NewDeviceRecord(FALSE, TRUE)
    IN  [pc EXCEPT
           !.devices = [e \in DOMAIN pc.devices \cup {d} |->
                          IF e = d THEN SetState([record EXCEPT !.enabled = TRUE], "UNKNOWN", t)
                          ELSE pc.devices[e]],
           !.registers = [r \in DOMAIN pc.registers \cup rows |->
                            IF r \in DOMAIN pc.registers THEN pc.registers[r]
                            ELSE NewRegisterRecord(NoneValue)]]

\* ValueTransformHelpers.transform_to_bytes gives no bytes for a value that is
\* not of the register's data type
TransformsToBytes(data_type) == data_type \in {"UINT8", "UINT16", "UINT32"}

\* __write_discovered_device_new_address and __write_discovered_device_state:
\* the attribute named name is written, value to it; without that attribute,
\* or when the value does not transform, the device is not persisted
WriteDiscoveredDevice(pc, cand, name, value, broadcast, accepted, t) ==
    LET named == {r \in pc.pairing.pairing_device_registers :
                     r.type = "ATTRIBUTE" /\ r.name = name}
    IN  IF named = {} THEN pc
        ELSE LET reg == CHOOSE r \in named : TRUE
             IN  IF ~TransformsToBytes(reg.data_type) THEN pc
                 ELSE [FinalizeDevice(pc, cand, t) EXCEPT
                         !.bus = Append(@, BusPacket(IF broadcast THEN "broadcast" ELSE "unicast",
                                                     cand, "WRITE_SINGLE_REGISTER_VALUE", reg,
                                                     value, broadcast \/ accepted))]

\* __send_finalize_discovery_handler; finalized notes the device, its registers
\* and what the write left behind, before the next device is taken
SendFinalizeDiscoveryHandler(pc, order, accepted, t) ==
    LET cand == pc.pairing.pairing_device
        written == IF cand.address = ADDRESS_NOT_ASSIGNED
                   THEN WriteDiscoveredDevice(pc, cand, "address", NEW_DEVICE_ADDRESS, TRUE,
                                              accepted, t)
                   ELSE WriteDiscoveredDevice(pc, cand, "state", ConnectionStateValue("RUNNING"),
                                              FALSE, accepted, t)
    IN  ProcessDiscoveredDevice(
            [written EXCEPT !.finalized =
                [ device |-> cand, rows |-> pc.pairing.pairing_device_registers,
                  known |-> cand.serial_number \in DOMAIN pc.devices,
                  devices |-> written.devices, registers |-> DOMAIN written.registers,
                  sent |-> SubSeq(written.bus, Len(pc.bus) + 1, Len(written.bus)) ]],
            order, t)

\* ApiV1Pairing.handle; order gives the orders in which the sets of discovered
\* devices and of registers give up their elements, accepted the transport's
\* answer to a send_packet; abandoned notes the pairing device the handle gave
\* up as lost, with the engine's fields at that moment
PairingHandle(pc, order, accepted, t) ==
    IF ~pc.pairing.enabled THEN pc
    ELSE LET c1 == IF pc.pairing.total_attempts >= MAX_TOTAL_TRANSMIT_ATTEMPTS
                   THEN [pc EXCEPT !.pairing = PairingDisable(@)] ELSE pc
             p1 == c1.pairing
         IN  IF ~p1.broadcasting_discovery_finished
             THEN (IF p1.discovery_attempts < MAX_DISCOVERY_ATTEMPTS
                   THEN (IF p1.last_request_send_timestamp = 0
                            \/ t - p1.last_request_send_timestamp >= DISCOVERY_BROADCAST_DELAY
                         THEN BroadcastDiscoverDevicesHandler(c1, t)
                         ELSE c1)
                   ELSE ProcessDiscoveredDevice(
                           [c1 EXCEPT !.pairing.broadcasting_discovery_finished = TRUE], order, t))
             ELSE IF p1.pairing_device = NoDiscoveredDevice THEN c1
             ELSE IF p1.device_attempts >= MAX_DEVICE_ATTEMPTS
                     \/ t - p1.last_request_send_timestamp >= MAX_PAIRING_DELAY
                  THEN ProcessDiscoveredDevice(
                          [c1 EXCEPT !.abandoned =
                              [ device |-> p1.pairing_device, attempts |-> p1.device_attempts,
                                rows |-> p1.pairing_device_registers,
                                waiting |-> p1.waiting_for_reply,
                                elapsed |-> t - p1.last_request_send_timestamp ]],
                          order, t)
             ELSE IF p1.waiting_for_reply THEN c1
             ELSE LET unknown == {r \in p1.pairing_device_registers : r.data_type = "UNKNOWN"}
                  IN  IF unknown # {}
                      THEN SendProvideRegisterStructureHandler(c1, First(unknown, order.registers), accepted, t)
                      ELSE SendFinalizeDiscoveryHandler(c1, order, accepted, t)

----------------------------------------------------------------------------
(* Inbound frames the bus may deliver *)

Payloads ==
    { <<>>, <<1>>, <<2, 2>>, <<1, 153>>, <<1, 1>>,
      <<1, 49, 1>>,
      <<1, 35, 2, 0, 0, 7, 0, 0, 0>>,
      <<1, 34, 1, 0, 0, 2, 7, 0, 0, 0, 8, 0, 0, 0>>,
      <<1, 34, 1, 0, 0, 3, 7, 0, 0, 0, 8, 0, 0, 0, 9, 0, 0, 0>>,
      <<1, 34, 1, 0, 0, 3, 7, 0, 0, 0, 8, 0, 0, 0>> }

SenderAddresses == {1, UnknownAddress}

HostValues == {IntValue(7), StrValue}

Removable == {Register(1, "INPUT", 1), Register(2, "ATTRIBUTE", 0)}

LostPayloads == { <<1, 2>>, <<1, 2, 0>>, <<1, 49, 1>> }

TimeSteps == {0, 1, PING_DELAY}

----------------------------------------------------------------------------
(* Observations *)

NoEntity == [ok |-> FALSE]
NoDevice == [attempts |-> -1]

Observation(op) ==
    [ op |-> op, sent |-> <<>>, canceled |-> <<>>, passes |-> <<>>,
      pairing_was_enabled |-> FALSE, ran_pairing |-> FALSE, ran_publisher |-> FALSE,
      finalized |-> NotFinalized, abandoned |-> NotAbandoned, discover |-> FALSE,
      popped |-> <<>>,
      to_be_sent |-> 0,
      dispatched |-> NoEntity, target |-> 0, target_before |-> NoDevice,
      target_after |-> NoDevice, events |-> <<>>, outcome |-> None, payload |-> <<>>, address |-> 0,
      register |-> Register(0, None, 0), value |-> NoneValue ]

\* no for-loop over the devices registry is under way
NoIteration ==
    [ iterator_index |-> 0,
      items |-> <<1, 2>>,
      loops |-> [i \in 1..MaxLoops |-> [state |-> "idle", visited |-> <<>>, present |-> {}]],
      changes |-> 0 ]

\* the sweep of a bank: it starts when the reading pointer enters the bank
\* (or was reset), and is open until the publisher moves the pointer on
NoSweep == [bank |-> None, ranges |-> <<>>, open |-> FALSE, size |-> 0]

RECURSIVE SweepAfter(_, _, _)
SweepAfter(sw, ctx, i) ==
    IF i > Len(ctx.passes) THEN sw
    ELSE LET pass == ctx.passes[i]
             d == pass.device
             taken == /\ pass.last >= pass.first
                      /\ ctx.sent[pass.first].packet = "READ_MULTIPLE_REGISTERS"
                      /\ ctx.sent[pass.first].result
             e == ctx.sent[pass.first]
             continues == /\ sw[d].open
                          /\ sw[d].bank = e.register_type
                          /\ pass.before.reading_register_type = e.register_type
             range == [start |-> e.start, count |-> e.count]
         IN  SweepAfter(
                IF taken
                THEN [sw EXCEPT ![d] =
                        [ bank |-> e.register_type,
                          ranges |-> IF continues THEN Append(sw[d].ranges, range)
                                     ELSE <<range>>,
                          open |-> pass.after.reading_register_type = e.register_type,
                          size |-> Len(GetAllForDevice(ctx.registers, d, e.register_type)) ]]
                ELSE sw,
                ctx, i + 1)

----------------------------------------------------------------------------
(* State after construction *)

Init ==
    /\ now = StartTime
    /\ devices = [d \in Devices |-> NewDeviceRecord(TRUE, TRUE)]
    /\ registers = [r \in RegisterIds |->
                      NewRegisterRecord(IF NameOf(r) = "address"
                                        THEN IntValue(DeviceAddress(r.device))
                                        ELSE NoneValue)]
    /\ queue = <<>>
    /\ pairing = NewPairing
    /\ stopped = FALSE
    /\ packets_to_be_sent = 0
    /\ budget = [inbound |-> MaxInbound, calls |-> MaxHostCalls, accepted |-> 0]
    /\ sweep = [d \in Devices |-> NoSweep]
    /\ iteration = NoIteration
    /\ bus = <<>>
    /\ processed_devices = <<>>
    /\ last = Observation("init")

----------------------------------------------------------------------------
(* connector.py: the top-level tick *)

\* the publisher runs when pairing is off and the transport has nothing queued
RunsPublisherIgnoringPairing(pairing_enabled, to_be_sent) == to_be_sent = 0

RunsPublisher(pairing_enabled, to_be_sent) == ~pairing_enabled /\ to_be_sent = 0

\* FbBusConnector.handle; t is what time.time() returns during the tick, res
\* are the transport's answers to the submissions of this tick, pending the
\* count client.handle() returns at its end
ConnectorHandleChoosing(t, res, pending, order) ==
    IF stopped /\ queue = <<>>
    THEN /\ last' = Observation("tick")
         /\ UNCHANGED <<now, devices, registers, queue, pairing, stopped,
                        packets_to_be_sent, budget, sweep, iteration, bus, processed_devices>>
    ELSE \E received \in {IF queue # <<>>
                            THEN ReceiverDispatch(devices, registers, Head(queue), t)
                            ELSE [devices |-> devices, registers |-> registers]} :
         LET has_entity == queue # <<>>
             entity == Head(queue)
             target == IF has_entity THEN GetByAddress(devices, entity.device_address) ELSE 0
             publishing == ~stopped /\ RunsPublisher(pairing.enabled, packets_to_be_sent)
             pairing_step == ~stopped /\ pairing.enabled
         IN
         \E heard \in {[pairing |-> IF has_entity THEN PairingReceive(pairing, entity)
                                   ELSE pairing,
                       devices |-> received.devices, registers |-> received.registers,
                       bus |-> bus, finalized |-> NotFinalized, abandoned |-> NotAbandoned,
                       discover |-> FALSE, popped |-> <<>>]} :
         \E paired \in {IF pairing_step THEN PairingHandle(heard, order, res[1], t) ELSE heard} :
         \E ctx \in {IF publishing
                    THEN PublisherLoop([devices |-> received.devices,
                                        registers |-> received.registers,
                                        sent |-> <<>>, canceled |-> <<>>, passes |-> <<>>,
                                        ret |-> FALSE, raised |-> FALSE], 1, res, t)
                    ELSE [devices |-> paired.devices, registers |-> paired.registers,
                          sent |-> <<>>, canceled |-> <<>>, passes |-> <<>>, ret |-> FALSE,
                          raised |-> FALSE]} :
             /\ queue' = IF has_entity THEN Tail(queue) ELSE queue
             /\ devices' = ctx.devices
             /\ registers' = ctx.registers
             /\ pairing' = paired.pairing
             /\ bus' = paired.bus
             /\ packets_to_be_sent' = IF stopped THEN packets_to_be_sent ELSE pending
             /\ last' = [Observation("tick") EXCEPT
                            !.sent = ctx.sent, !.canceled = ctx.canceled, !.passes = ctx.passes,
                            !.pairing_was_enabled = ~stopped /\ pairing.enabled,
                            !.ran_pairing = pairing_step,
                            !.finalized = paired.finalized,
                            !.abandoned = paired.abandoned,
                            !.discover = paired.discover,
                            !.popped = paired.popped,
                            !.ran_publisher = ctx.passes # <<>>,
                            !.to_be_sent = packets_to_be_sent,
                            !.dispatched = IF has_entity THEN entity ELSE NoEntity,
                            !.target = target,
                            !.events = IF has_entity
                                       THEN ReceivePropagates(devices, registers, entity)
                                       ELSE <<>>,
                            !.target_before = IF target # 0 THEN devices[target] ELSE NoDevice,
                            !.target_after = IF target # 0 THEN received.devices[target]
                                             ELSE NoDevice]
             /\ sweep' = SweepAfter(sweep, ctx, 1)
             /\ now' = t
             /\ UNCHANGED <<stopped, budget, iteration, processed_devices>>

\* a tick in which the engine's sets give up their elements in ascending order
AscendingOrder ==
    [ devices |-> <<1, 2, 3, 4>>,
      registers |-> <<<<"INPUT", 0>>, <<"ATTRIBUTE", 0>>, <<"ATTRIBUTE", 1>>>> ]

ConnectorHandle(t, res, pending) == ConnectorHandleChoosing(t, res, pending, AscendingOrder)

\* Queue(maxsize=1000): put(item) is called without block=False or a timeout,
\* so on a full queue it waits for a free slot instead of raising queue.Full
QueueIsFull(q) == Len(q) >= QUEUE_MAXSIZE

\* Receiver.on_message: the receive callback the transport calls for a frame;
\* "blocked" is the call that never returns
OnMessageOutcome(p, address) ==
    IF ValidateVersionRaises(p) THEN "raised"
    ELSE IF Validate(p) = "raise" THEN "raised"
    ELSE IF Validate(p) = "false" THEN "invalid"
    ELSE IF ~ParseMessage(p, Len(p), address, devices, registers).ok THEN "parse_error"
    ELSE IF QueueIsFull(queue) THEN "blocked"
    ELSE "enqueued"

\* Receiver.append: Queue.put adds at the tail
AppendInFront(q, entity) == <<entity>> \o q

ReceiverAppend(q, entity) == Append(q, entity)

\* seq numbers the entities in the order the transport delivered them; room
\* bounds the queue lengths at which frames are delivered, and nothing is
\* delivered once a call is blocked, as the callback runs on the tick's thread
OnMessageWithin(p, address, room) ==
    /\ budget.inbound > 0
    /\ Len(queue) < room
    /\ last.outcome # "blocked"
    /\ queue' = IF OnMessageOutcome(p, address) = "enqueued"
                THEN ReceiverAppend(queue,
                                    ParseMessage(p, Len(p), address, devices, registers)
                                        @@ [payload |-> p, seq |-> budget.accepted + 1])
                ELSE queue
    /\ budget' = [budget EXCEPT !.inbound = @ - 1,
                                !.accepted = IF OnMessageOutcome(p, address) = "enqueued"
                                             THEN @ + 1 ELSE @]
    /\ last' = [Observation("on_message") EXCEPT
                   !.outcome = OnMessageOutcome(p, address), !.payload = p,
                   !.address = address,
                   !.target = GetByAddress(devices, address),
                   !.target_before = IF GetByAddress(devices, address) # 0
                                     THEN devices[GetByAddress(devices, address)]
                                     ELSE NoDevice]
    /\ UNCHANGED <<now, devices, registers, pairing, stopped, packets_to_be_sent, sweep, iteration, bus, processed_devices>>

OnMessage(p, address) == OnMessageWithin(p, address, MaxQueue)

\* FbBusConnector.write_property: the host asks for a value to be written
WritePropertyWhileStopped(r, value) ==
    /\ budget.calls > 0
    /\ r \in DOMAIN registers
    /\ budget' = [budget EXCEPT !.calls = @ - 1]
    /\ registers' = SetExpectedValue(registers, r, value)
    /\ last' = [Observation("write_property") EXCEPT !.register = r, !.value = value]
    /\ UNCHANGED <<now, devices, queue, pairing, stopped, packets_to_be_sent, sweep, iteration, bus, processed_devices>>

WriteProperty(r, value) ==
    /\ budget.calls > 0
    /\ r \in DOMAIN registers
    /\ budget' = [budget EXCEPT !.calls = @ - 1]
    /\ registers' = IF stopped THEN registers ELSE SetExpectedValue(registers, r, value)
    /\ last' = [Observation("write_property") EXCEPT !.register = r, !.value = value]
    /\ UNCHANGED <<now, devices, queue, pairing, stopped, packets_to_be_sent, sweep, iteration, bus, processed_devices>>

\* FbBusConnector.remove_register
RemoveRegister(r) ==
    /\ budget.calls > 0
    /\ r \in DOMAIN registers
    /\ budget' = [budget EXCEPT !.calls = @ - 1]
    /\ registers' = [x \in DOMAIN registers \ {r} |-> registers[x]]
    /\ last' = [Observation("remove_register") EXCEPT !.register = r]
    /\ UNCHANGED <<now, devices, queue, pairing, stopped, packets_to_be_sent, sweep, iteration, bus, processed_devices>>

\* FbBusConnector.stop / start: every device is set to UNKNOWN
Stop ==
    /\ budget.calls > 0
    /\ ~stopped
    /\ budget' = [budget EXCEPT !.calls = @ - 1]
    /\ devices' = [d \in DOMAIN devices |-> SetState(devices[d], "UNKNOWN", now)]
    /\ stopped' = TRUE
    /\ last' = Observation("stop")
    /\ UNCHANGED <<now, registers, queue, pairing, packets_to_be_sent, sweep, iteration, bus, processed_devices>>

Start ==
    /\ stopped
    /\ stopped' = FALSE
    /\ devices' = [d \in DOMAIN devices |-> SetState(devices[d], "UNKNOWN", now)]
    /\ last' = Observation("start")
    /\ UNCHANGED <<now, registers, queue, pairing, packets_to_be_sent, budget, sweep, iteration, bus, processed_devices>>

\* pairing enable / disable, called by the host
EnablePairing ==
    /\ budget.calls > 0
    /\ ~pairing.enabled
    /\ budget' = [budget EXCEPT !.calls = @ - 1]
    /\ pairing' = PairingEnable(pairing)
    /\ last' = Observation("enable_pairing")
    /\ UNCHANGED <<now, devices, registers, queue, stopped, packets_to_be_sent, sweep, iteration, bus, processed_devices>>

DisablePairing ==
    /\ pairing.enabled
    /\ pairing' = PairingDisable(pairing)
    /\ last' = Observation("disable_pairing")
    /\ UNCHANGED <<now, devices, registers, queue, stopped, packets_to_be_sent, budget, sweep, iteration, bus, processed_devices>>

\* a tick at a clock reading no later than the horizon
TickWithin(steps, results, pendings, horizon) ==
    \E dt \in steps, res \in results, pending \in pendings :
        now + dt <= horizon /\ ConnectorHandle(now + dt, res, pending)

ReceiveAny(payloads, addresses) ==
    \E p \in payloads, address \in addresses : OnMessage(p, address)

Tick == TickWithin(TimeSteps, TransportResults, {0, 1}, MaxTime)
Receive == ReceiveAny(Payloads, SenderAddresses)
HostWrite ==
    \E r \in {x \in RegisterIds : x.type = "OUTPUT"}, value \in HostValues :
        WriteProperty(r, value)
HostRemove == \E r \in Removable : RemoveRegister(r)

Next ==
    \/ Tick
    \/ Receive
    \/ HostWrite
    \/ HostRemove
    \/ Stop
    \/ Start
    \/ EnablePairing
    \/ DisablePairing

Spec == Init /\ [][Next]_vars

(* The same program once the host has disabled pairing, over a horizon long  *)
(* enough for the lost-device probing: the host is idle, the transport takes *)
(* every packet at once, and frames arrive from device 1 only                *)

InitLost ==
    /\ now = StartTime
    /\ devices = [d \in Devices |-> NewDeviceRecord(TRUE, TRUE)]
    /\ registers = [r \in RegisterIds |->
                      NewRegisterRecord(IF NameOf(r) = "address"
                                        THEN IntValue(DeviceAddress(r.device))
                                        ELSE NoneValue)]
    /\ queue = <<>>
    /\ pairing = PairingDisable(NewPairing)
    /\ stopped = FALSE
    /\ packets_to_be_sent = 0
    /\ budget = [inbound |-> MaxInboundLost, calls |-> 0, accepted |-> 0]
    /\ sweep = [d \in Devices |-> NoSweep]
    /\ iteration = NoIteration
    /\ bus = <<>>
    /\ processed_devices = <<>>
    /\ last = Observation("init")

LongTick == TickWithin({1, PING_DELAY}, {[i \in 1..MaxSends |-> TRUE]}, {0}, MaxTimeLost)
LongReceive == ReceiveAny(LostPayloads, {1})

NextLost ==
    \/ LongTick
    \/ LongReceive

SpecLost == InitLost /\ [][NextLost]_vars

(* Device 1 alone, RUNNING as after its state reply, with a bank of 1 to 3   *)
(* INPUT registers and a "max_packet_length" attribute that lets one packet *)
(* read one or two registers, or without that attribute; the transport may  *)
(* refuse any submission, and the device may answer one read                *)

SweepBankSizes == 1..(MaxRegisterAddress + 1)
SweepPacketLengths == {0, 12, 16}

SweepRegisterIds(n, max_packet_length) ==
    {Register(1, "INPUT", a) : a \in 0..(n - 1)}
        \cup {Register(1, "ATTRIBUTE", 0), Register(1, "ATTRIBUTE", 1)}
        \cup (IF max_packet_length = 0 THEN {} ELSE {Register(1, "ATTRIBUTE", 2)})

SweepPayloads == { <<1, 34, 1, 0, 0, 1, 7, 0, 0, 0>> }

InitSweep ==
    /\ now = StartTime
    /\ devices = [d \in {1} |-> SetState(NewDeviceRecord(TRUE, TRUE), "RUNNING", StartTime)]
    /\ \E n \in SweepBankSizes, max_packet_length \in SweepPacketLengths :
          registers = [r \in SweepRegisterIds(n, max_packet_length) |->
                         NewRegisterRecord(
                            CASE NameOf(r) = "address" -> IntValue(DeviceAddress(r.device))
                              [] NameOf(r) = "state" -> IntValue(ConnectionStateValue("RUNNING"))
                              [] NameOf(r) = "max_packet_length" -> IntValue(max_packet_length)
                              [] OTHER -> NoneValue)]
    /\ queue = <<>>
    /\ pairing = PairingDisable(NewPairing)
    /\ stopped = FALSE
    /\ packets_to_be_sent = 0
    /\ budget = [inbound |-> MaxInboundSweep, calls |-> 0, accepted |-> 0]
    /\ sweep = [d \in Devices |-> NoSweep]
    /\ iteration = NoIteration
    /\ bus = <<>>
    /\ processed_devices = <<>>
    /\ last = Observation("init")

SweepTick == TickWithin({1}, TransportResults, {0}, MaxTimeSweep)
SweepReceive == ReceiveAny(SweepPayloads, {1})

NextSweep ==
    \/ SweepTick
    \/ SweepReceive

SpecSweep == InitSweep /\ [][NextSweep]_vars

(* registry/model.py: for-loops over the devices registry (Publisher.loop,   *)
(* FbBusConnector.start and stop) while the registry is changed.  Every     *)
(* loop calls __iter__ once and then __next__ until StopIteration; the      *)
(* registry is its own iterator, so all loops share __iterator_index.       *)
(* present holds the devices that were in the registry when the loop began  *)
(* and have been there since.                                               *)

SeqToSet(q) == {q[i] : i \in 1..Len(q)}

SeqWithout(q, x) == SelectSeq(q, LAMBDA y : y # x)

\* DevicesRegistry.__iter__
DevicesRegistryIter(i) ==
    /\ iteration.loops[i].state = "idle"
    /\ iteration' = [iteration EXCEPT
                        !.iterator_index = 0,
                        !.loops[i] = [state |-> "running", visited |-> <<>>,
                                      present |-> SeqToSet(iteration.items)]]
    /\ UNCHANGED <<now, devices, registers, queue, pairing, stopped, packets_to_be_sent,
                   budget, sweep, bus, processed_devices, last>>

\* DevicesRegistry.__next__: the index after the call
NextIndex(index, size) == IF index < size THEN index + 1 ELSE 0

DevicesRegistryNext(i) ==
    /\ iteration.loops[i].state = "running"
    /\ Len(iteration.loops[i].visited) < MaxVisits
    /\ iteration' = [iteration EXCEPT
                        !.iterator_index = NextIndex(@, Len(iteration.items)),
                        !.loops[i] =
                            IF iteration.iterator_index < Len(iteration.items)
                            THEN [@ EXCEPT !.visited =
                                     Append(@, iteration.items[iteration.iterator_index + 1])]
                            ELSE [@ EXCEPT !.state = "done"]]
    /\ UNCHANGED <<now, devices, registers, queue, pairing, stopped, packets_to_be_sent,
                   budget, sweep, bus, processed_devices, last>>

\* DevicesRegistry.remove
DevicesRegistryRemove(d) ==
    /\ iteration.changes < MaxRegistryChanges
    /\ d \in DOMAIN devices
    /\ devices' = [x \in DOMAIN devices \ {d} |-> devices[x]]
    /\ iteration' = [iteration EXCEPT
                        !.items = SeqWithout(@, d),
                        !.changes = @ + 1,
                        !.loops = [i \in DOMAIN @ |-> [@[i] EXCEPT !.present = @ \ {d}]]]
    /\ UNCHANGED <<now, registers, queue, pairing, stopped, packets_to_be_sent,
                   budget, sweep, bus, processed_devices, last>>

\* DevicesRegistry.create: a new key goes to the end of the dict
DevicesRegistryCreate(d) ==
    /\ iteration.changes < MaxRegistryChanges
    /\ d \notin DOMAIN devices
    /\ devices' = [x \in DOMAIN devices \cup {d} |->
                      IF x = d THEN NewDeviceRecord(TRUE, TRUE) ELSE devices[x]]
    /\ iteration' = [iteration EXCEPT !.items = Append(@, d), !.changes = @ + 1]
    /\ UNCHANGED <<now, registers, queue, pairing, stopped, packets_to_be_sent,
                   budget, sweep, bus, processed_devices, last>>

\* DevicesRegistry.set_state -> __update: the key keeps its place in the dict
DevicesRegistryUpdate(d) ==
    /\ iteration.changes < MaxRegistryChanges
    /\ d \in DOMAIN devices
    /\ devices' = [devices EXCEPT ![d] = SetState(@, "RUNNING", now)]
    /\ iteration' = [iteration EXCEPT !.changes = @ + 1]
    /\ UNCHANGED <<now, registers, queue, pairing, stopped, packets_to_be_sent,
                   budget, sweep, bus, processed_devices, last>>

LoopStart == \E i \in 1..MaxLoops : DevicesRegistryIter(i)
LoopNext == \E i \in 1..MaxLoops : DevicesRegistryNext(i)
RegistryRemove == \E d \in Devices : DevicesRegistryRemove(d)
RegistryCreate == DevicesRegistryCreate(NewDevice)
RegistryUpdate == \E d \in Devices : DevicesRegistryUpdate(d)

NextIteration ==
    \/ LoopStart
    \/ LoopNext
    \/ RegistryRemove
    \/ RegistryCreate
    \/ RegistryUpdate

SpecIteration == InitLost /\ [][NextIteration]_vars

(* Stopping and restarting the connector: pairing is off, device 1 may report *)
(* that it is running, and the host stops the connector once, through the    *)
(* stop() of either connector.py; around it the host may enable pairing and   *)
(* ask for values to be written                                              *)

StopPayloads == { <<1, 49, 1>> }

InitStop ==
    /\ now = StartTime
    /\ devices = [d \in Devices |-> NewDeviceRecord(TRUE, TRUE)]
    /\ registers = [r \in RegisterIds |->
                      NewRegisterRecord(IF NameOf(r) = "address"
                                        THEN IntValue(DeviceAddress(r.device))
                                        ELSE NoneValue)]
    /\ queue = <<>>
    /\ pairing = PairingDisable(NewPairing)
    /\ stopped = FALSE
    /\ packets_to_be_sent = 0
    /\ budget = [inbound |-> MaxInboundStop, calls |-> MaxHostCallsStop, accepted |-> 0]
    /\ sweep = [d \in Devices |-> NoSweep]
    /\ iteration = NoIteration
    /\ bus = <<>>
    /\ processed_devices = <<>>
    /\ last = Observation("init")

\* FbBusConnector.stop of fastybird_fb_bus_connector: the connection state of
\* a device is its STATE attribute (initialize_device_property sets it to
\* UNKNOWN on load), and stop writes DISCONNECTED into every STATE attribute
StopDisconnecting ==
    /\ budget.calls > 0
    /\ ~stopped
    /\ budget' = [budget EXCEPT !.calls = @ - 1]
    /\ devices' = [d \in DOMAIN devices |-> [devices[d] EXCEPT !.state = "DISCONNECTED"]]
    /\ stopped' = TRUE
    /\ last' = Observation("stop")
    /\ UNCHANGED <<now, registers, queue, pairing, packets_to_be_sent, sweep, iteration, bus, processed_devices>>

StopTick == TickWithin({1}, TransportResults, {0}, MaxTimeStop)
StopReceive == ReceiveAny(StopPayloads, {1})

NextStop ==
    \/ StopTick
    \/ StopReceive
    \/ Stop
    \/ StopDisconnecting
    \/ Start
    \/ EnablePairing
    \/ HostWrite

SpecStop == InitStop /\ [][NextStop]_vars

(* A burst of frames from device 1 that outruns the dispatch of one entity    *)
(* per tick: pairing is off, the host is idle, and the tick's thread is the   *)
(* one the transport calls on_message on                                      *)

BurstPayloads == { <<1, 2>> }

InitBurst ==
    /\ now = StartTime
    /\ devices = [d \in Devices |-> NewDeviceRecord(TRUE, TRUE)]
    /\ registers = [r \in RegisterIds |->
                      NewRegisterRecord(IF NameOf(r) = "address"
                                        THEN IntValue(DeviceAddress(r.device))
                                        ELSE NoneValue)]
    /\ queue = <<>>
    /\ pairing = PairingDisable(NewPairing)
    /\ stopped = FALSE
    /\ packets_to_be_sent = 0
    /\ budget = [inbound |-> MaxInboundBurst, calls |-> 0, accepted |-> 0]
    /\ sweep = [d \in Devices |-> NoSweep]
    /\ iteration = NoIteration
    /\ bus = <<>>
    /\ processed_devices = <<>>
    /\ last = Observation("init")

BurstTick ==
    /\ last.outcome # "blocked"
    /\ TickWithin({1}, {[i \in 1..MaxSends |-> TRUE]}, {0}, MaxTimeBurst)

BurstReceive == \E p \in BurstPayloads : OnMessageWithin(p, 1, QUEUE_MAXSIZE + 1)

NextBurst ==
    \/ BurstTick
    \/ BurstReceive

SpecBurst == InitBurst /\ [][NextBurst]_vars

(* A pairing session: the registry holds devices 1 and 2 as loaded at        *)
(* startup, pairing is enabled as after construction, and on the bus are two *)
(* new devices without an address (serial numbers 3 and 4) and device 2,     *)
(* each with the one attribute register "address".  A tick comes every two   *)
(* seconds; once the session is over the ticks run the publisher.            *)

DeviceDiscoveryEntity(serial_number, address) ==
    Entity("DeviceDiscoveryEntity", address, None, None, <<>>)
        @@ [ device_serial_number |-> serial_number, input_registers_size |-> 0,
             output_registers_size |-> 0, attributes_registers_size |-> 1 ]

RegisterStructureEntity(address, r) ==
    Entity("RegisterStructureEntity", address, None, r.type, <<>>)
        @@ [ register_address |-> r.address, register_data_type |-> DataTypeOf(r),
             register_name |-> NameOf(r) ]

\* the packets of the bus that write the "address" attribute of device d
AddressWrites(d) ==
    { i \in 1..Len(bus) :
        /\ bus[i].packet = "WRITE_SINGLE_REGISTER_VALUE"
        /\ bus[i].serial_number = d
        /\ NameOf(Register(d, bus[i].register_type, bus[i].register_address)) = "address" }

\* a new device announces the address it was given once it has been written
\* to it, and no address before
PairingReplies ==
    { DeviceDiscoveryEntity(d, IF AddressWrites(d) = {} THEN ADDRESS_NOT_ASSIGNED
                               ELSE NEW_DEVICE_ADDRESS) : d \in {3, 4} }
        \cup { DeviceDiscoveryEntity(2, DeviceAddress(2)),
               RegisterStructureEntity(ADDRESS_NOT_ASSIGNED, Register(3, "ATTRIBUTE", 0)) }

PairingOrders ==
    { [devices |-> o, registers |-> <<<<"ATTRIBUTE", 0>>>>] :
        o \in { <<2, 3, 4>>, <<3, 4, 2>>, <<4, 2, 3>> } }

InitPairing ==
    /\ now = StartTime
    /\ devices = [d \in Devices |-> NewDeviceRecord(TRUE, TRUE)]
    /\ registers = [r \in RegisterIds |->
                      NewRegisterRecord(IF NameOf(r) = "address"
                                        THEN IntValue(DeviceAddress(r.device))
                                        ELSE NoneValue)]
    /\ queue = <<>>
    /\ pairing = NewPairing
    /\ stopped = FALSE
    /\ packets_to_be_sent = 0
    /\ budget = [inbound |-> MaxInboundPairing, calls |-> 0, accepted |-> 0]
    /\ sweep = [d \in Devices |-> NoSweep]
    /\ iteration = NoIteration
    /\ bus = <<>>
    /\ processed_devices = <<>>
    /\ last = Observation("init")

\* Receiver.on_message for a valid frame that parses into a pairing entity
OnPairingMessage(entity) ==
    /\ budget.inbound > 0
    /\ Len(queue) < MaxQueue
    /\ queue' = ReceiverAppend(queue, entity @@ [payload |-> <<>>, seq |-> budget.accepted + 1])
    /\ budget' = [budget EXCEPT !.inbound = @ - 1, !.accepted = @ + 1]
    /\ last' = [Observation("on_message") EXCEPT !.outcome = "enqueued",
                                                 !.address = entity.device_address]
    /\ UNCHANGED <<now, devices, registers, pairing, stopped, packets_to_be_sent, sweep, iteration, bus, processed_devices>>

PairingTick ==
    \E order \in PairingOrders, res \in TransportResults :
        /\ now + DISCOVERY_BROADCAST_DELAY <= MaxTimePairing
        /\ ConnectorHandleChoosing(now + DISCOVERY_BROADCAST_DELAY, res, 0, order)

PairingReply == \E entity \in PairingReplies : OnPairingMessage(entity)

NextPairing ==
    \/ PairingTick
    \/ PairingReply

SpecPairing == InitPairing /\ [][NextPairing]_vars

(* A long pairing session: a new device without an address (serial number 3, *)
(* one attribute register "address") announces itself again and again, as a  *)
(* device does that did not take the address written to it, and answers the  *)
(* structure requests, each time before the next tick.  The transport takes  *)
(* every packet; a tick comes every second.                                  *)

InitCap ==
    /\ now = StartTime
    /\ devices = [d \in Devices |-> NewDeviceRecord(TRUE, TRUE)]
    /\ registers = [r \in RegisterIds |->
                      NewRegisterRecord(IF NameOf(r) = "address"
                                        THEN IntValue(DeviceAddress(r.device))
                                        ELSE NoneValue)]
    /\ queue = <<>>
    /\ pairing = NewPairing
    /\ stopped = FALSE
    /\ packets_to_be_sent = 0
    /\ budget = [inbound |-> MaxInboundCap, calls |-> 0, accepted |-> 0]
    /\ sweep = [d \in Devices |-> NoSweep]
    /\ iteration = NoIteration
    /\ bus = <<>>
    /\ processed_devices = <<>>
    /\ last = Observation("init")

\* the device announces itself once the engine waits on a request, or searches
CapAnnounceDue ==
    /\ budget.inbound > 0
    /\ queue = <<>>
    /\ pairing.enabled
    /\ pairing.waiting_for_reply \/ ~pairing.broadcasting_discovery_finished
    /\ \A c \in pairing.discovered_devices : c.serial_number # NewDevice

\* the device answers the structure request the engine waits on
CapReplyDue ==
    /\ budget.inbound > 0
    /\ queue = <<>>
    /\ pairing.waiting_for_reply
    /\ ~CapAnnounceDue

\* a tick comes every second
CapTickStep == DISCOVERY_BROADCAST_DELAY \div 2

\* a tick comes when the device has said what it had to say
CapTick ==
    /\ ~CapAnnounceDue
    /\ ~CapReplyDue
    /\ now + CapTickStep <= MaxTimeCap
    /\ ConnectorHandleChoosing(now + CapTickStep, [i \in 1..MaxSends |-> TRUE], 0, AscendingOrder)

CapAnnounce ==
    /\ CapAnnounceDue
    /\ OnPairingMessage(DeviceDiscoveryEntity(NewDevice, ADDRESS_NOT_ASSIGNED))

CapReply ==
    /\ CapReplyDue
    /\ OnPairingMessage(RegisterStructureEntity(ADDRESS_NOT_ASSIGNED,
                                                Register(NewDevice, "ATTRIBUTE", 0)))

NextCap ==
    \/ CapTick
    \/ CapAnnounce
    \/ CapReply

SpecCap == InitCap /\ [][NextCap]_vars

(* A write whose reply may be lost: device 1 alone, RUNNING, with one INPUT   *)
(* and one OUTPUT register; the host writes the OUTPUT register once, right  *)
(* after the start, the transport takes every packet, and the device answers *)
(* the bulk reads of its INPUT bank and, or not, the write, one frame        *)
(* between two ticks                                                         *)

PendingRegisterIds ==
    { Register(1, "INPUT", 0), Register(1, "OUTPUT", 0),
      Register(1, "ATTRIBUTE", 0), Register(1, "ATTRIBUTE", 1) }

PendingPayloads == { <<1, 34, 1, 0, 0, 1, 7, 0, 0, 0>>, <<1, 35, 2, 0, 0, 7, 0, 0, 0>> }

InitPending ==
    /\ now = StartTime
    /\ devices = [d \in {1} |-> SetState(NewDeviceRecord(TRUE, TRUE), "RUNNING", StartTime)]
    /\ registers = [r \in PendingRegisterIds |->
                      NewRegisterRecord(
                         CASE NameOf(r) = "address" -> IntValue(DeviceAddress(r.device))
                           [] NameOf(r) = "state" -> IntValue(ConnectionStateValue("RUNNING"))
                           [] OTHER -> NoneValue)]
    /\ queue = <<>>
    /\ pairing = PairingDisable(NewPairing)
    /\ stopped = FALSE
    /\ packets_to_be_sent = 0
    /\ budget = [inbound |-> MaxInboundPending, calls |-> MaxHostCallsPending, accepted |-> 0]
    /\ sweep = [d \in Devices |-> NoSweep]
    /\ iteration = NoIteration
    /\ bus = <<>>
    /\ processed_devices = <<>>
    /\ last = Observation("init")

PendingTick == TickWithin({1}, {[i \in 1..MaxSends |-> TRUE]}, {0}, MaxTimePending)
PendingReceive == \E p \in PendingPayloads : OnMessageWithin(p, 1, 1)
PendingWrite == now = StartTime /\ WriteProperty(Register(1, "OUTPUT", 0), IntValue(7))

NextPending ==
    \/ PendingTick
    \/ PendingReceive
    \/ PendingWrite

SpecPending == InitPending /\ [][NextPending]_vars

(* Several values waiting to be written: device 1 alone, RUNNING, with three *)
(* OUTPUT registers, the second one of a type the builder refuses, and its   *)
(* attributes; the host writes to any of them or removes the first OUTPUT    *)
(* register, the transport takes or refuses the packets of a tick, and the   *)
(* device echoes the write of its first OUTPUT register                      *)

WritesRegisterIds ==
    { Register(1, "OUTPUT", 0), Register(1, "OUTPUT", 1), Register(1, "OUTPUT", 2),
      Register(1, "ATTRIBUTE", 0), Register(1, "ATTRIBUTE", 1), Register(1, "ATTRIBUTE", 2) }

WritesTargets ==
    { Register(1, "OUTPUT", 0), Register(1, "OUTPUT", 1), Register(1, "OUTPUT", 2),
      Register(1, "ATTRIBUTE", 2) }

WritesPayloads == { <<1, 35, 2, 0, 0, 7, 0, 0, 0>> }

InitWrites ==
    /\ now = StartTime
    /\ devices = [d \in {1} |-> SetState(NewDeviceRecord(TRUE, TRUE), "RUNNING", StartTime)]
    /\ registers = [r \in WritesRegisterIds |->
                      NewRegisterRecord(
                         CASE NameOf(r) = "address" -> IntValue(DeviceAddress(r.device))
                           [] NameOf(r) = "state" -> IntValue(ConnectionStateValue("RUNNING"))
                           [] OTHER -> NoneValue)]
    /\ queue = <<>>
    /\ pairing = PairingDisable(NewPairing)
    /\ stopped = FALSE
    /\ packets_to_be_sent = 0
    /\ budget = [inbound |-> MaxInboundWrites, calls |-> MaxHostCallsWrites, accepted |-> 0]
    /\ sweep = [d \in Devices |-> NoSweep]
    /\ iteration = NoIteration
    /\ bus = <<>>
    /\ processed_devices = <<>>
    /\ last = Observation("init")

WritesTick == TickWithin({0, 1}, TransportResults, {0}, MaxTimeWrites)
WritesReceive == \E p \in WritesPayloads : OnMessageWithin(p, 1, 1)
WritesWrite == \E r \in WritesTargets : WriteProperty(r, IntValue(7))
WritesRemove == RemoveRegister(Register(1, "OUTPUT", 0))

NextWrites ==
    \/ WritesTick
    \/ WritesReceive
    \/ WritesWrite
    \/ WritesRemove

SpecWrites == InitWrites /\ [][NextWrites]_vars

(* The plugin's connector loop over its publisher proxy: device 1 is enabled  *)
(* and ready, device 2 is disabled or not ready, the transport is drained at  *)
(* the end of every tick and pairing stays disabled.                          *)

\* FbBusConnector.loop of the plugin, with pairing disabled
PluginConnectorLoop(t, res, pending) ==
    /\ ~pairing.enabled
    /\ IF stopped /\ queue = <<>>
       THEN /\ last' = Observation("tick")
            /\ UNCHANGED <<now, devices, registers, queue, packets_to_be_sent, processed_devices>>
       ELSE LET has_entity == queue # <<>>
                entity == Head(queue)
                received == IF has_entity THEN ReceiverDispatch(devices, registers, entity, t)
                            ELSE [devices |-> devices, registers |-> registers]
            IN  \E idle \in {[devices |-> received.devices, registers |-> received.registers,
                               sent |-> <<>>, canceled |-> <<>>, passes |-> <<>>,
                               ret |-> FALSE, raised |-> FALSE,
                               processed |-> processed_devices]} :
                \E ctx \in {IF ~stopped /\ packets_to_be_sent = 0
                             THEN PluginPublisherLoop(idle, res, t) ELSE idle} :
                /\ queue' = IF has_entity THEN Tail(queue) ELSE queue
                /\ devices' = ctx.devices
                /\ registers' = ctx.registers
                /\ processed_devices' = ctx.processed
                /\ packets_to_be_sent' = IF stopped THEN packets_to_be_sent ELSE pending
                /\ last' = [Observation("tick") EXCEPT
                               !.sent = ctx.sent, !.passes = ctx.passes,
                               !.ran_publisher = ~stopped /\ packets_to_be_sent = 0,
                               !.to_be_sent = packets_to_be_sent,
                               !.dispatched = IF has_entity THEN entity ELSE NoEntity]
                /\ now' = t
    /\ UNCHANGED <<pairing, stopped, budget, sweep, iteration, bus>>

InitFair ==
    /\ now = StartTime
    /\ \E off \in {<<FALSE, TRUE>>, <<TRUE, FALSE>>} :
          devices = [d \in Devices |-> IF d = 1 THEN NewDeviceRecord(TRUE, TRUE)
                                       ELSE NewDeviceRecord(off[1], off[2])]
    /\ registers = [r \in RegisterIds |->
                      NewRegisterRecord(IF NameOf(r) = "address"
                                        THEN IntValue(DeviceAddress(r.device))
                                        ELSE NoneValue)]
    /\ queue = <<>>
    /\ pairing = PairingDisable(NewPairing)
    /\ stopped = FALSE
    /\ packets_to_be_sent = 0
    /\ budget = [inbound |-> MaxInboundFair, calls |-> 0, accepted |-> 0]
    /\ sweep = [d \in Devices |-> NoSweep]
    /\ iteration = NoIteration
    /\ bus = <<>>
    /\ processed_devices = <<>>
    /\ last = Observation("init")

\* the clock stands still once it has reached the horizon
FairTick ==
    \E dt \in {0, 1}, res \in TransportResults :
        PluginConnectorLoop(Min(now + dt, MaxTimeFair), res, 0)

FairReceive == OnMessageWithin(<<1, 49, 1>>, 1, 1)

NextFair ==
    \/ FairTick
    \/ FairReceive

\* loop() is called again and again from the host's own loop
SpecFair == InitFair /\ [][NextFair]_vars /\ WF_vars(FairTick)

(* A pairing session with one new device that advertises between two and six *)
(* registers and answers every structure request before the next tick.       *)

\* the banks a new device may advertise: <<inputs, outputs, attributes>>
StructureSizes == { <<0, 0, 2>>, <<0, 1, 2>>, <<3, 0, 2>>, <<3, 1, 2>> }

StructureOrder ==
    [ devices |-> <<1, 2, 4, NewDevice>>,
      registers |-> << <<"INPUT", 0>>, <<"INPUT", 1>>, <<"INPUT", 2>>, <<"OUTPUT", 0>>,
                       <<"ATTRIBUTE", 0>>, <<"ATTRIBUTE", 1>> >> ]

InitStructure ==
    /\ now = StartTime
    /\ devices = [d \in Devices |-> NewDeviceRecord(TRUE, TRUE)]
    /\ registers = [r \in RegisterIds |->
                      NewRegisterRecord(IF NameOf(r) = "address"
                                        THEN IntValue(DeviceAddress(r.device))
                                        ELSE NoneValue)]
    /\ queue = <<>>
    /\ pairing = NewPairing
    /\ stopped = FALSE
    /\ packets_to_be_sent = 0
    /\ budget = [inbound |-> MaxInboundStructure, calls |-> 0, accepted |-> 0]
    /\ sweep = [d \in Devices |-> NoSweep]
    /\ iteration = NoIteration
    /\ bus = <<>>
    /\ processed_devices = <<>>
    /\ last = Observation("init")

\* the device answers the first DISCOVER it hears
StructureAnnounceDue ==
    /\ budget.inbound > 0
    /\ queue = <<>>
    /\ pairing.enabled
    /\ ~pairing.broadcasting_discovery_finished
    /\ pairing.discovery_attempts = 1
    /\ pairing.discovered_devices = {}

\* the device answers the structure request the engine waits on
StructureReplyDue ==
    /\ budget.inbound > 0
    /\ queue = <<>>
    /\ pairing.enabled
    /\ pairing.waiting_for_reply
    /\ bus # <<>>
    /\ bus[Len(bus)].packet = "READ_SINGLE_REGISTER_STRUCTURE"

\* a tick comes at most a second after the device has said what it had to say
StructureTick ==
    /\ pairing.enabled
    /\ ~StructureAnnounceDue
    /\ ~StructureReplyDue
    /\ \E dt \in {1, 2} :
          /\ now + dt <= MaxTimeStructure
          /\ ConnectorHandleChoosing(now + dt, [i \in 1..MaxSends |-> TRUE], 0, StructureOrder)

StructureAnnounce ==
    /\ StructureAnnounceDue
    /\ \E sizes \in StructureSizes :
          OnPairingMessage([DeviceDiscoveryEntity(NewDevice, ADDRESS_NOT_ASSIGNED) EXCEPT
                               !.input_registers_size = sizes[1],
                               !.output_registers_size = sizes[2],
                               !.attributes_registers_size = sizes[3]])

\* the device announces itself once more, to the second DISCOVER
StructureAnnounceAgain ==
    /\ budget.inbound > 0
    /\ queue = <<>>
    /\ pairing.enabled
    /\ ~pairing.broadcasting_discovery_finished
    /\ pairing.discovery_attempts = 2
    /\ pairing.discovered_devices # {}
    /\ last.op = "tick"
    /\ \E sizes \in StructureSizes :
          OnPairingMessage([DeviceDiscoveryEntity(NewDevice, ADDRESS_NOT_ASSIGNED) EXCEPT
                               !.input_registers_size = sizes[1],
                               !.output_registers_size = sizes[2],
                               !.attributes_registers_size = sizes[3]])

\* other devices answer the third DISCOVER: device 2 with its own address
\* or with that of device 1, an unknown device with the address of device 1
StructureAnnounceOthers ==
    /\ budget.inbound > 0
    /\ queue = <<>>
    /\ pairing.enabled
    /\ ~pairing.broadcasting_discovery_finished
    /\ pairing.discovery_attempts = 3
    /\ last.op = "tick"
    /\ \E entity \in { DeviceDiscoveryEntity(2, DeviceAddress(2)),
                        DeviceDiscoveryEntity(2, DeviceAddress(1)),
                        DeviceDiscoveryEntity(4, DeviceAddress(1)) } :
          OnPairingMessage(entity)

StructureReply ==
    /\ StructureReplyDue
    /\ OnPairingMessage(RegisterStructureEntity(
                           ADDRESS_NOT_ASSIGNED,
                           Register(NewDevice, bus[Len(bus)].register_type,
                                    bus[Len(bus)].register_address)))

NextStructure ==
    \/ StructureTick
    \/ StructureAnnounce
    \/ StructureAnnounceAgain
    \/ StructureAnnounceOthers
    \/ StructureReply

SpecStructure == InitStructure /\ [][NextStructure]_vars

----------------------------------------------------------------------------
(* Properties *)

\* the passes and submissions of the tick just made
Passes == {last.passes[i] : i \in 1..Len(last.passes)}
Submissions == {last.sent[i] : i \in 1..Len(last.sent)}
Canceled == {last.canceled[i] : i \in 1..Len(last.canceled)}

InsideResponseWindow(dev) ==
    /\ dev.waiting_for_packet # None
    /\ now - dev.last_packet_sent_timestamp < PACKET_RESPONSE_DELAY

\* C1: the publisher never submits a packet to a device that is awaiting a
\* reply and whose last packet was sent less than PACKET_RESPONSE_DELAY ago
C1_NoSubmissionInsideResponseWindow ==
    \A e \in Submissions : ~InsideResponseWindow(e.before)

\* a pass found its device inside the response window and submitted nothing
C1_Witness ==
    /\ last.op = "tick"
    /\ \E pass \in Passes :
          /\ pass.resolved
          /\ InsideResponseWindow(pass.before)
          /\ pass.last < pass.first

\* C2: a tick that reaches its pairing-or-publish step with pairing enabled
\* does not run the publisher, and no tick runs both pairing and the publisher
C2_PairingExcludesPublisher ==
    last.op = "tick" =>
        /\ last.pairing_was_enabled => ~last.ran_publisher
        /\ ~(last.ran_pairing /\ last.ran_publisher)
        /\ last.ran_publisher => ~last.pairing_was_enabled

\* a tick ran a discovery broadcast while the transport had nothing queued,
\* and the publisher stayed out of it
C2_Witness ==
    /\ last.op = "tick"
    /\ last.pairing_was_enabled
    /\ last.ran_pairing
    /\ last.to_be_sent = 0
    /\ ~last.ran_publisher
    /\ pairing.discovery_attempts > 0

\* C3: a pass over a device with MAX_TRANSMIT_ATTEMPTS attempts submits nothing;
\* it leaves a device that was not lost lost, and resets the communication of
\* one that was
C3_AttemptsReachedMeansLost ==
    \A pass \in Passes :
        (pass.resolved /\ pass.before.attempts >= MAX_TRANSMIT_ATTEMPTS) =>
            /\ pass.last < pass.first
            /\ IF IsLost(pass.before)
               THEN pass.after.waiting_for_packet = None /\ pass.after.attempts = 0
               ELSE IsLost(pass.after)

\* C4: a submission the transport rejects leaves the device awaiting nothing
\* and with the transmit attempts it had before the submission
C4_RejectedSubmissionNotCounted ==
    \A e \in Submissions :
        ~e.result => /\ e.after.waiting_for_packet = None
                     /\ e.after.attempts = e.before.attempts

\* C5: once the PONG of a lost device is dispatched the device has no
\* attempts, awaits nothing, is UNKNOWN and is no longer lost
C5_PongEndsLost ==
    (/\ last.op = "tick"
     /\ last.dispatched.ok
     /\ last.target # 0
     /\ IsLost(last.target_before))
        => (last.dispatched.payload = <<1, 2>> =>
               /\ last.target_after.attempts = 0
               /\ last.target_after.waiting_for_packet = None
               /\ last.target_after.state = "UNKNOWN"
               /\ ~IsLost(last.target_after))

\* C6: whenever a register's actual value equals its expected value, the
\* expected value and the pending stamp are both none
C6_ActualEqualsExpectedMeansNone ==
    \A r \in DOMAIN registers :
        registers[r].actual_value = registers[r].expected_value =>
            /\ registers[r].expected_value = NoneValue
            /\ registers[r].expected_pending = -1

IsMultipleRegistersReply(p) ==
    Len(p) >= 6 /\ p[1] = ProtocolVersionV1 /\ p[2] \in {34, 36} /\ RegisterTypeHasValue(p[3])

RefersToOffendingRegister(p, d, regs) ==
    \E a \in (p[4] * 256 + p[5])..(p[4] * 256 + p[5] + p[6] - 1) :
        \/ Register(d, RegisterTypeOf(p[3]), a) \notin DOMAIN regs
        \/ DataTypeOf(Register(d, RegisterTypeOf(p[3]), a)) \notin ParsableDataTypes

\* C8: a multi-register reply naming a register that is unknown or of an
\* unsupported data type is not enqueued, and if it is dispatched it changes
\* no register's actual value
C8_OffendingReplyAppliesNothing ==
    [][ /\ (/\ last'.op = "on_message"
            /\ IsMultipleRegistersReply(last'.payload)
            /\ last'.target # 0
            /\ RefersToOffendingRegister(last'.payload, last'.target, registers))
           => last'.outcome = "parse_error"
        /\ (/\ last'.op = "tick"
            /\ last'.dispatched.ok
            /\ last'.target # 0
            /\ IsMultipleRegistersReply(last'.dispatched.payload)
            /\ RefersToOffendingRegister(last'.dispatched.payload, last'.target, registers))
           => \A r \in DOMAIN registers :
                 /\ r \in DOMAIN registers'
                 /\ registers'[r].actual_value = registers[r].actual_value ]_vars

BadFraming(p) ==
    \/ Len(p) < 2
    \/ p[1] # ProtocolVersionV1
    \/ ~PacketHasValue(p[2])

\* C9: a payload shorter than 2 bytes, of another protocol version or of an
\* unknown opcode is dropped and the receive path returns normally
C9_BadFramingDroppedQuietly ==
    (last.op = "on_message" /\ BadFraming(last.payload)) => last.outcome = "invalid"

\* C10: a device none of whose replies could be parsed is, once it has
\* MAX_TRANSMIT_ATTEMPTS attempts, made lost by the next pass over it
C10_UnparseableRepliesLeadToLost ==
    \A pass \in Passes :
        (/\ pass.resolved
         /\ budget.inbound < MaxInboundLost
         /\ budget.accepted = 0
         /\ pass.before.attempts >= MAX_TRANSMIT_ATTEMPTS
         /\ ~IsLost(pass.before))
            => IsLost(pass.after)

\* the addresses a sweep's ranges cover
SweepCovered(sw) ==
    {a \in 0..(sw.size + MaxRegisterAddress + 1) :
        \E i \in 1..Len(sw.ranges) :
            sw.ranges[i].start <= a /\ a < sw.ranges[i].start + sw.ranges[i].count}

\* C11: the READ_MULTIPLE ranges the transport took within one sweep of a
\* bank are non-empty, disjoint and increasing, and once the sweep is over
\* they cover exactly the addresses of the bank
C11_SweepCoversBankOnce ==
    \A d \in DOMAIN devices :
        LET sw == sweep[d]
        IN  /\ \A i \in 1..Len(sw.ranges) : sw.ranges[i].count > 0
            /\ \A i, j \in 1..Len(sw.ranges) :
                  i < j => sw.ranges[i].start + sw.ranges[i].count <= sw.ranges[j].start
            /\ (sw.ranges # <<>> /\ ~sw.open) => SweepCovered(sw) = 0..(sw.size - 1)

\* a sweep of three packets is over, one submission of it having been refused
C11_Witness ==
    /\ ~sweep[1].open
    /\ Len(sweep[1].ranges) = 3
    /\ devices[1].attempts > 3

\* C12: dispatching a multi-register reply that was parsed into n values for
\* the addresses s .. s+n-1 propagates exactly those n registers, in address
\* order
C12_OneEventPerRegisterInOrder ==
    (/\ last.op = "tick"
     /\ last.dispatched.ok
     /\ last.dispatched.cls \in MultipleRegistersEntities
     /\ last.target # 0)
        => LET vals == last.dispatched.values
           IN  last.events = [i \in 1..Len(vals) |-> vals[1].address + i - 1]

\* C13: entities are dispatched in the order they were delivered: the queue
\* holds them in delivery order, and an entity is dispatched before every
\* entity delivered after it
C13_DispatchInDeliveryOrder ==
    /\ \A i, j \in 1..Len(queue) : i < j => queue[i].seq < queue[j].seq
    /\ (last.op = "tick" /\ last.dispatched.ok)
          => \A i \in 1..Len(queue) : last.dispatched.seq < queue[i].seq

\* two entities were waiting and the tick dispatched the earlier one
C13_Witness ==
    /\ last.op = "tick"
    /\ last.dispatched.ok
    /\ last.dispatched.seq = 1
    /\ Len(queue) = 1
    /\ queue[1].seq = 2

TimesVisited(loop, d) == Cardinality({k \in 1..Len(loop.visited) : loop.visited[k] = d})

\* C14: a for-loop over the devices registry visits no device that stays in
\* the registry twice, and once it is over it has visited each of them
C14_LoopVisitsEachDeviceOnce ==
    \A i \in DOMAIN iteration.loops :
        LET loop == iteration.loops[i]
        IN  \A d \in loop.present :
                /\ TimesVisited(loop, d) <= 1
                /\ loop.state = "done" => TimesVisited(loop, d) = 1

\* C15: whenever a device's waiting_for_packet goes from a packet to none,
\* its transmit attempts are 0 afterwards
C15_AttemptsResetWithWaitingForPacket ==
    [][\A d \in DOMAIN devices \cap DOMAIN devices' :
          (devices[d].waiting_for_packet # None /\ devices'[d].waiting_for_packet = None)
              => devices'[d].attempts = 0]_vars

\* C18: once stop() has returned, every device of the registry is in
\* connection state UNKNOWN
C18_AllUnknownAfterStop ==
    last.op = "stop" => \A d \in DOMAIN devices : devices[d].state = "UNKNOWN"

\* C19: every on_message call returns, and a message that arrives while the
\* receiver's queue is full is dropped, the queue staying as it is
C19_AppendOnFullQueueReturns ==
    last.op = "on_message"
        => /\ last.outcome # "blocked"
           /\ Len(queue) <= QUEUE_MAXSIZE

\* the addresses the engine has written to the "address" attribute of device d
AssignedAddresses(d) == { bus[i].value : i \in AddressWrites(d) }

\* the bus address device d holds: the one the engine assigned to it, or else
\* the one of its "address" attribute
HeldAddresses(d) ==
    IF AssignedAddresses(d) # {} THEN AssignedAddresses(d)
    ELSE {GetAddressForDevice(registers, d)} \ {-1}

\* C16: no two enabled devices of the registry hold the same bus address
C16_EnabledAddressesDistinct ==
    \A d, e \in DOMAIN devices :
        (d # e /\ devices[d].enabled /\ devices[e].enabled)
            => HeldAddresses(d) \cap HeldAddresses(e) = {}

\* C17: every packet the pairing engine sends for a discovered device whose
\* address is 255 is a broadcast, and a device that was discovered without
\* an address is sent a unicast only after the WRITE that assigns its address
C17_NoUnicastToUnassigned ==
    \A i \in 1..Len(bus) :
        /\ bus[i].device_address = ADDRESS_NOT_ASSIGNED => bus[i].kind = "broadcast"
        /\ (/\ bus[i].kind = "unicast"
            /\ \E j \in 1..(i - 1) : /\ bus[j].serial_number = bus[i].serial_number
                                     /\ bus[j].device_address = ADDRESS_NOT_ASSIGNED)
              => \E k \in AddressWrites(bus[i].serial_number) : k < i

\* device 3 was asked for a register structure and given its address by
\* broadcasts, and later, discovered again with that address, by a unicast
C17_Witness ==
    \E i, j, k \in 1..Len(bus) :
        /\ i < j /\ j < k
        /\ bus[i].serial_number = 3 /\ bus[j].serial_number = 3 /\ bus[k].serial_number = 3
        /\ bus[i].packet = "READ_SINGLE_REGISTER_STRUCTURE" /\ bus[i].kind = "broadcast"
        /\ j \in AddressWrites(3) /\ bus[j].kind = "broadcast"
        /\ bus[k].kind = "unicast" /\ bus[k].device_address = NEW_DEVICE_ADDRESS

\* the finalize step of the tick just made was for a device that is new to
\* the registry, has no address, and has an attribute register "address"
FinalizedNewDevice ==
    /\ last.op = "tick"
    /\ last.finalized.device # NoDiscoveredDevice
    /\ ~last.finalized.known
    /\ last.finalized.device.address = ADDRESS_NOT_ASSIGNED
    /\ \E r \in last.finalized.rows : r.type = "ATTRIBUTE" /\ r.name = "address"

\* C20: once every register of a new device without an address has its
\* structure, the finalize step leaves the device in the registry, enabled and
\* in state UNKNOWN, with all its discovered registers, and its one packet is
\* a broadcast WRITE of the assigned address to the device's "address"
\* attribute
C20_FinalizePersistsAndWritesAddress ==
    FinalizedNewDevice
        => LET f == last.finalized
               d == f.device.serial_number
           IN  /\ \A r \in f.rows : r.data_type # "UNKNOWN"
               /\ d \in DOMAIN f.devices
               /\ f.devices[d].enabled
               /\ f.devices[d].state = "UNKNOWN"
               /\ \A r \in f.rows : Register(d, r.type, r.address) \in f.registers
               /\ Len(f.sent) = 1
               /\ f.sent[1].kind = "broadcast"
               /\ f.sent[1].packet = "WRITE_SINGLE_REGISTER_VALUE"
               /\ f.sent[1].serial_number = d
               /\ \E r \in f.rows : /\ r.type = "ATTRIBUTE" /\ r.name = "address"
                                    /\ f.sent[1].register_type = r.type
                                    /\ f.sent[1].register_address = r.address
               /\ f.sent[1].value = NEW_DEVICE_ADDRESS

\* device 4 has just been finalized, after device 3
C20_Witness ==
    /\ FinalizedNewDevice
    /\ last.finalized.device.serial_number = 4
    /\ 3 \in DOMAIN devices
    /\ 4 \in DOMAIN devices

\* C21: a pairing session hands the transport no more than
\* MAX_TOTAL_TRANSMIT_ATTEMPTS packets for its candidates, whatever their phase
\* and candidate
C21_TotalAttemptsCapEndsSession == Len(bus) <= MAX_TOTAL_TRANSMIT_ATTEMPTS

\* C22: in one tick the publisher submits at most one packet for a device
C22_OnePacketPerDevicePerTick ==
    \A pass \in Passes : pass.last - pass.first + 1 <= 1

\* an OUTPUT or ATTRIBUTE register of device d waits to be written: it has an
\* expected value the builder can encode and no write of it is pending
AwaitsWrite(d) ==
    \E r \in DOMAIN registers :
        /\ r.device = d
        /\ r.type \in {"OUTPUT", "ATTRIBUTE"}
        /\ registers[r].expected_value # NoneValue
        /\ registers[r].expected_pending = -1
        /\ ~BuildRaises(DataTypeOf(r), registers[r].expected_value)

\* C23: writes take precedence over reads: a pass that found a register of
\* its device waiting to be written submits no READ_MULTIPLE, so after a pass
\* that submitted one no register of the device waits to be written (the pass
\* leaves such a register waiting only if its WRITE was not taken)
C23_WritePrecedesRead ==
    \A pass \in Passes :
        (\E i \in pass.first..pass.last : last.sent[i].packet = "READ_MULTIPLE_REGISTERS")
            => ~AwaitsWrite(pass.device)

\* the bank of register_type of device d
BankSize(d, register_type) == Len(GetAllForDevice(registers, d, register_type))

\* the pass submitted a READ_MULTIPLE the transport took, and it reached the
\* end of the last bank of the sweep that holds registers (INPUT, then OUTPUT)
EndsSweep(pass) ==
    /\ pass.last >= pass.first
    /\ LET e == last.sent[pass.last]
       IN  /\ e.packet = "READ_MULTIPLE_REGISTERS"
           /\ e.result
           /\ e.start + e.count >= BankSize(pass.device, e.register_type)
           /\ e.register_type = "OUTPUT" \/ BankSize(pass.device, "OUTPUT") = 0

\* C24: the pass that reads the end of the last bank of a sweep clears the
\* reading cursor and sets the time of the last reading to the current time
C24_SweepEndClearsCursorAndStampsTime ==
    \A pass \in Passes :
        EndsSweep(pass)
            => /\ pass.after.reading_register_type = None
               /\ pass.after.reading_registers_timestamp = now

\* C25: an expected value of a register of a RUNNING device does not stay
\* unresolved behind expected_pending: the value is taken over or given up, or
\* the WRITE is sent again (which renews expected_pending), or the device is
\* LOST, before a sampling time has passed since the WRITE
C25_PendingWriteResolvedOrRepeated ==
    \A r \in DOMAIN registers :
        /\ IsRunning(devices[r.device])
        /\ registers[r].expected_value # NoneValue
        /\ registers[r].expected_pending # -1
        => now - registers[r].expected_pending < SAMPLING_TIME


\* C26: while ticks continue with pairing disabled and the transport drained,
\* every enabled and ready device is handled by the publisher again and again,
\* whatever the other devices of the registry are doing
C26_EnabledReadyDeviceHandledInfinitelyOften ==
    \A d \in Devices :
        []<>(devices[d].enabled /\ devices[d].ready
                => last.op = "tick" /\ \E pass \in Passes : pass.device = d)


\* C29: a candidate that advertises at least one register is given up only
\* after at least one structure request has been sent for it: the attempt
\* count and the delay clock that decide it start afresh with the candidate
C29_CandidateRequestedBeforeAbandoned ==
    last.abandoned.device # NoDiscoveredDevice /\ last.abandoned.rows # {}
        => last.abandoned.attempts >= 1


\* the rows of a given-up pairing device whose structure the device has told
AnsweredRows == {r \in last.abandoned.rows : r.data_type # "UNKNOWN"}

\* C27: a pairing device is given up only for lack of replies: after
\* MAX_DEVICE_ATTEMPTS structure requests that went unanswered, or when
\* MAX_PAIRING_DELAY has passed since a request that is still unanswered
C27_AbandonedOnlyForLackOfReplies ==
    last.abandoned.device # NoDiscoveredDevice
        => \/ last.abandoned.attempts - Cardinality(AnsweredRows) >= MAX_DEVICE_ATTEMPTS
           \/ last.abandoned.waiting /\ last.abandoned.elapsed >= MAX_PAIRING_DELAY

\* C28: a pairing device that answers every structure request in time is not
\* given up, however many registers it advertises
C28_AnsweringCandidateNotAbandoned ==
    last.abandoned.device.serial_number # NewDevice


\* the time by which a session whose broadcasts and requests were all counted
\* would have ended: the broadcast phase, then MAX_TOTAL_TRANSMIT_ATTEMPTS
\* requests of which each is waited on for MAX_PAIRING_DELAY at most
SessionDeadline ==
    StartTime + (MAX_DISCOVERY_ATTEMPTS + 1) * DISCOVERY_BROADCAST_DELAY
        + MAX_TOTAL_TRANSMIT_ATTEMPTS * MAX_PAIRING_DELAY

\* C30: pairing terminates: whatever the devices answer, an enabled session
\* has disabled itself once the time its attempt limits allow has passed
C30_PairingSessionEnds == now >= SessionDeadline => ~pairing.enabled

\* the publisher passes over devices that entered the registry through
\* pairing, the registry having started with Devices only
FinalizedPasses == {pass \in Passes : pass.device \notin Devices}

\* C31: a device finalized by pairing stays enabled once the publisher
\* resumes: the pass over it resolves an integer address, leaves it enabled,
\* and the first packet for it is the READ of its "state" attribute
C31_FinalizedDeviceStaysEnabled ==
    \A pass \in FinalizedPasses :
        /\ pass.resolved
        /\ pass.after.enabled
        /\ pass.before.state = "UNKNOWN" =>
              /\ pass.first <= pass.last
              /\ last.sent[pass.first].packet = "READ_SINGLE_REGISTER"
              /\ NameOf(Register(pass.device, last.sent[pass.first].register_type,
                                 last.sent[pass.first].start)) = "state"

\* C32: WRITE_SINGLE_REGISTER_VALUE and READ_MULTIPLE_REGISTERS_VALUES are
\* submitted only for a device that is RUNNING when the pass reaches it, and
\* a pass over a device that is UNKNOWN (not lost) with its response gate open
\* submits nothing but a READ of the device's "state" attribute
C32_ValuesOnlyForRunningDevices ==
    /\ \A e \in Submissions :
          e.packet \in {"WRITE_SINGLE_REGISTER", "READ_MULTIPLE_REGISTERS"}
              => e.before.state = "RUNNING"
    /\ \A pass \in Passes :
          (IsUnknown(pass.before) /\ ~IsLost(pass.before) /\ ~InsideResponseWindow(pass.before))
              => \A i \in pass.first..pass.last :
                    /\ last.sent[i].packet = "READ_SINGLE_REGISTER"
                    /\ NameOf(Register(pass.device, last.sent[i].register_type,
                                       last.sent[i].start)) = "state"

\* one tick passed over a device that is neither UNKNOWN nor RUNNING, with
\* its gate open and a reading due, and submitted nothing for it, and over an
\* UNKNOWN one that got the READ of its "state" attribute
C32_Witness ==
    /\ last.op = "tick"
    /\ \E pass \in Passes :
          /\ pass.resolved
          /\ pass.before.state \notin {"UNKNOWN", "RUNNING"}
          /\ ~IsLost(pass.before)
          /\ ~InsideResponseWindow(pass.before)
          /\ pass.before.attempts < MAX_TRANSMIT_ATTEMPTS
          /\ now - pass.before.reading_registers_timestamp >= SAMPLING_TIME
          /\ pass.last < pass.first
    /\ \E pass \in Passes :
          /\ IsUnknown(pass.before) /\ ~IsLost(pass.before)
          /\ pass.first = pass.last
          /\ last.sent[pass.first].packet = "READ_SINGLE_REGISTER"

\* the registers as the publisher of the tick being taken finds them: after
\* the dispatch of the message at the head of the queue, if there is one
RegistersAtPublish ==
    IF queue # <<>> THEN ReceiverDispatch(devices, registers, Head(queue), now').registers
    ELSE registers

IsAwaitingWrite(reg) == reg.expected_value # NoneValue /\ reg.expected_pending = -1

\* r comes before s in the scan of __write_register_handler
ScannedBefore(r, s) ==
    /\ r.device = s.device
    /\ \/ r.type = "OUTPUT" /\ s.type = "ATTRIBUTE"
       \/ r.type = s.type /\ r.address < s.address

WritesOf(obs) ==
    { i \in 1..Len(obs.sent) : obs.sent[i].packet = "WRITE_SINGLE_REGISTER" }

WrittenRegister(e) == Register(e.device, e.register_type, e.start)

\* C33: a WRITE is sent only for a register with an expected value and no
\* expected_pending, the first such register of the device with OUTPUT scanned
\* before ATTRIBUTE; expected_pending is stamped on the register whose WRITE
\* the transport took and on no other
C33_WriteFirstAwaitingRegister ==
    [][ last'.op = "tick" =>
          /\ \A i \in WritesOf(last') :
                LET r == WrittenRegister(last'.sent[i])
                IN  /\ r \in DOMAIN RegistersAtPublish
                    /\ IsAwaitingWrite(RegistersAtPublish[r])
                    /\ \A s \in DOMAIN registers' :
                          ScannedBefore(s, r) => ~IsAwaitingWrite(registers'[s])
                    /\ last'.sent[i].result => registers'[r].expected_pending = now'
          /\ \A r \in DOMAIN registers' \cap DOMAIN RegistersAtPublish :
                registers'[r].expected_pending # RegistersAtPublish[r].expected_pending
                    => \E i \in WritesOf(last') :
                          /\ WrittenRegister(last'.sent[i]) = r
                          /\ last'.sent[i].result
                          /\ registers'[r].expected_pending = now' ]_vars

\* C34: a packet submitted to a lost device is a PING, submitted no sooner
\* than PING_DELAY after the device's last packet and stamping the time of
\* the device's last packet, a time that never goes back: two PINGs to one
\* lost device are at least PING_DELAY apart
C34_LostDeviceOnlyPinged ==
    [][ /\ \A i \in 1..Len(last'.sent) :
              LET e == last'.sent[i]
              IN  IsLost(e.before) =>
                     /\ e.packet = "PING"
                     /\ now' - e.before.last_packet_sent_timestamp >= PING_DELAY
                     /\ e.after.last_packet_sent_timestamp = now'
        /\ \A d \in DOMAIN devices \cap DOMAIN devices' :
              devices'[d].last_packet_sent_timestamp >= devices[d].last_packet_sent_timestamp
      ]_vars

\* a lost device was sent a PING, the transport taking it
C34_Witness ==
    /\ last.op = "tick"
    /\ \E e \in Submissions :
          /\ IsLost(e.before)
          /\ e.packet = "PING"
          /\ e.result
          /\ e.before.last_packet_sent_timestamp > 0
          /\ IsLost(devices[e.device])

ValueReplies ==
    { "ReadSingleRegisterEntity", "ReadMultipleRegistersEntity",
      "WriteSingleRegisterEntity", "WriteMultipleRegistersEntity" }

\* C35: the dispatch of a value-carrying reply (the reply to a single or a
\* multiple read, the echo of a write) from a known device leaves the device
\* awaiting no packet and with no transmit attempts
C35_ValueReplyResetsCommunication ==
    (/\ last.op = "tick"
     /\ last.dispatched.ok
     /\ last.dispatched.cls \in ValueReplies
     /\ last.target # 0)
        => /\ last.target_after.waiting_for_packet = None
           /\ last.target_after.attempts = 0

\* C36: a DISCOVER is broadcast only by an enabled session still in its
\* broadcast phase, it is at most the MAX_DISCOVERY_ATTEMPTS-th of the session,
\* and it comes no sooner than DISCOVERY_BROADCAST_DELAY after the DISCOVER
\* before it; within a session the count of broadcasts and the time of the
\* last one only change with a broadcast
C36_DiscoverBroadcastsBounded ==
    [][ /\ last'.discover =>
              /\ last'.op = "tick"
              /\ pairing.enabled /\ ~stopped
              /\ ~pairing.broadcasting_discovery_finished
              /\ pairing.pairing_device = NoDiscoveredDevice
              /\ pairing'.discovery_attempts = pairing.discovery_attempts + 1
              /\ pairing'.discovery_attempts <= MAX_DISCOVERY_ATTEMPTS
              /\ pairing.discovery_attempts > 0 =>
                    now' - pairing.last_request_send_timestamp >= DISCOVERY_BROADCAST_DELAY
              /\ pairing'.last_request_send_timestamp = now'
        /\ (/\ ~last'.discover
            /\ pairing.enabled /\ pairing'.enabled
            /\ ~pairing'.broadcasting_discovery_finished) =>
              /\ pairing'.discovery_attempts = pairing.discovery_attempts
              /\ pairing'.last_request_send_timestamp = pairing.last_request_send_timestamp
      ]_vars

\* the fifth DISCOVER of a session has just been broadcast
C36_Witness ==
    /\ last.op = "tick"
    /\ last.discover
    /\ pairing.enabled
    /\ pairing.discovery_attempts = MAX_DISCOVERY_ATTEMPTS

\* C37: the set of discovered devices holds at most one record for a serial
\* number, and the dispatch of a discovery reply whose serial number is in the
\* set adds nothing to it
C37_OneDiscoveredRecordPerSerial ==
    [][ /\ \A c1, c2 \in pairing'.discovered_devices :
              c1.serial_number = c2.serial_number => c1 = c2
        /\ (/\ last'.op = "tick"
            /\ last'.dispatched.ok
            /\ last'.dispatched.cls = "DeviceDiscoveryEntity"
            /\ \E c \in pairing.discovered_devices :
                  c.serial_number = last'.dispatched.device_serial_number)
              => pairing'.discovered_devices \subseteq pairing.discovered_devices
      ]_vars

\* the announcement of a device that is in the set, with other register
\* counts than the record has, has just been dispatched; the record is as it
\* was
C37_Witness ==
    /\ last.op = "tick"
    /\ last.dispatched.ok
    /\ last.dispatched.cls = "DeviceDiscoveryEntity"
    /\ \E c \in pairing.discovered_devices :
          /\ c.serial_number = last.dispatched.device_serial_number
          /\ c.input_registers_size # last.dispatched.input_registers_size
    /\ Cardinality(pairing.discovered_devices) = 1

\* the device taken from the discovered set announced an address, and another
\* device of the registry, as it then was, holds that address
AddressHeldByOther(p) ==
    /\ p.device.address # ADDRESS_NOT_ASSIGNED
    /\ \E d \in DOMAIN p.devices :
          /\ d # p.device.serial_number
          /\ GetAddressForDevice(p.registers, d) = p.device.address

\* C38: a device taken from the discovered set whose announced address
\* another registry device holds is passed over: it does not become the
\* pairing device, so no READ_SINGLE_REGISTER_STRUCTURE goes out for it (a
\* structure request is for the pairing device of the tick), its registry
\* entries are as they were, and the engine takes the next device of the set
\* or, the set being empty, ends the session
C38_CandidateWithTakenAddressSkipped ==
    [][ last'.op = "tick" =>
          /\ \A i \in 1..Len(last'.popped) :
                LET p == last'.popped[i]
                    d == p.device.serial_number
                IN  AddressHeldByOther(p) =>
                       /\ pairing'.pairing_device # p.device
                       /\ IF d \in DOMAIN p.devices
                          THEN d \in DOMAIN devices' /\ devices'[d] = p.devices[d]
                          ELSE d \notin DOMAIN devices'
                       /\ \A r \in DOMAIN registers' \cup DOMAIN p.registers :
                             r.device = d =>
                                /\ r \in DOMAIN registers' \cap DOMAIN p.registers
                                /\ registers'[r] = p.registers[r]
                       /\ \/ i < Len(last'.popped)
                          \/ pairing'.discovered_devices = {} /\ ~pairing'.enabled
          /\ \A j \in (Len(bus) + 1)..Len(bus') :
                bus'[j].packet = "READ_SINGLE_REGISTER_STRUCTURE" =>
                   /\ bus'[j].serial_number = pairing.pairing_device.serial_number
                   /\ last'.popped = <<>> ]_vars

\* one handle passed over a device of the registry and an unknown device,
\* both announcing the address of device 1, and took the new device after them
C38_Witness ==
    /\ last.op = "tick"
    /\ \E i, j \in 1..Len(last.popped) :
          /\ AddressHeldByOther(last.popped[i]) /\ AddressHeldByOther(last.popped[j])
          /\ last.popped[i].device.serial_number \in DOMAIN devices
          /\ last.popped[j].device.serial_number \notin DOMAIN devices
    /\ pairing.pairing_device # NoDiscoveredDevice
    /\ pairing.pairing_device.address = ADDRESS_NOT_ASSIGNED

\* C39: the address written to the "address" attribute of a new device that
\* announced no address lies in 1..253 and is held by no other device of the
\* registry
C39_AssignedAddressIsFree ==
    (FinalizedNewDevice /\ Len(last.finalized.sent) = 1)
        => LET assigned == last.finalized.sent[1].value
               d == last.finalized.device.serial_number
           IN  /\ assigned \in 1..253
               /\ \A e \in DOMAIN last.finalized.devices \ {d} :
                     assigned \notin HeldAddresses(e)

\* C40: while the connector is stopped, a tick submits no pairing and no
\* publisher packet, a write request leaves every register's expected_value
\* as it was, and a tick that finds inbound messages queued still dispatches
\* exactly the first of them
C40_StoppedConnectorOnlyDrainsQueue ==
    [][ /\ (stopped /\ last'.op = "tick")
            => /\ last'.sent = <<>>
               /\ ~last'.ran_pairing
               /\ ~last'.ran_publisher
               /\ ~last'.discover
               /\ bus' = bus
               /\ packets_to_be_sent' = packets_to_be_sent
               /\ queue # <<>> => /\ queue' = Tail(queue)
                                  /\ last'.dispatched = Head(queue)
        /\ (stopped /\ last'.op = "write_property")
            => \A r \in DOMAIN registers :
                  /\ r \in DOMAIN registers'
                  /\ registers'[r].expected_value = registers[r].expected_value
      ]_vars

\* the stopped connector, with pairing enabled, has dispatched the first of
\* two queued messages and the second is still waiting
C40_Witness ==
    /\ stopped
    /\ pairing.enabled
    /\ last.op = "tick"
    /\ last.dispatched # NoEntity
    /\ queue # <<>>

====
